---- MODULE Spec2Model ----
(***************************************************************************)
(* Model of the synthetic-monitoring logic of the e2e test suite:          *)
(* the probe loops of multi-app-integration.spec.ts, the setup test, the   *)
(* global setup and the repeated-probe tests of the Express API suite.     *)
(* One test function runs per behaviour (chosen in Init); each await of    *)
(* an external call (request.get, page.goto, page.evaluate) is resolved    *)
(* by the environment with one of the outcomes the call can produce.       *)
(***************************************************************************)
EXTENDS Integers, Sequences, FiniteSets

(* ---------- bounds of the environment ---------- *)

\* status codes a response can carry (200 and 400 are the edges of [200,400))
StatusCodes == {200, 304, 400, 500}

\* wall-clock durations (ms) a completed request or navigation can take
Latencies == {800, 31000}

\* what an awaited request.get / page.goto can do: reject, or resolve with a
\* response of some status after some time
Rejected == [threw |-> TRUE, status |-> 0, ms |-> 0]

Responses == [threw : {FALSE}, status : StatusCodes, ms : Latencies]

Outcomes == {Rejected} \cup Responses

\* the same for a call whose duration the caller does not measure
StatusOutcomes == {Rejected} \cup [threw : {FALSE}, status : StatusCodes, ms : {0}]

\* a navigation whose response status the caller never reads
PageOutcomes == {Rejected} \cup [threw : {FALSE}, status : {200, 500}, ms : {0}]

\* a JavaScript number that is a quotient: num / den with den > 0
Quot(n, d) == [num |-> n, den |-> d]

\* q < k and q > k for a quotient q and an integer k
QuotLess(q, k) == q.num < k * q.den

QuotGreater(q, k) == q.num > k * q.den

\* Number.prototype.toFixed(1) of a non-negative quotient, in tenths
ToFixed1(q) == (2 * 10 * q.num + q.den) \div (2 * q.den)

\* a file that does not exist
Absent == "absent"

\* an object without properties; also a const that is not yet initialised
Unset == <<>>

\* obj.f = v
Put(obj, f, v) == [g \in DOMAIN obj \cup {f} |-> IF g = f THEN v ELSE obj[g]]

\* obj.f !== undefined
Has(obj, f) == f \in DOMAIN obj

\* how many observer callbacks the browser delivers in one measurement window
MaxCallbacks == 2

\* how many entries the observers of one test receive in one window at most
MaxEntries == 2

\* how many of the concurrentRequests of the concurrency test the model starts
MaxConcurrent == 3

\* startTime values (ms) of largest-contentful-paint entries
LcpTimes == {0, 2400, 2500, 3200}

\* startTime values (ms) of the first-contentful-paint entry
FcpTimes == {900}

\* layout-shift scores, in thousandths (0.04 and 0.06)
ShiftValues == {40, 60}

\* one layout-shift entry
ShiftEntries == [value : ShiftValues, hadRecentInput : BOOLEAN]

(* ---------- the tests ---------- *)

Tests == {"access", "health", "setup", "globalSetup", "perf", "vitals",
          "repeat", "concurrent", "nav", "wait",
          "config", "globalTeardown", "api"}

VARIABLES
  test,          \* the test function this behaviour runs
  pc,            \* position in the test function
  verdict,       \* "running", "passed", "failed" (an expect threw), "threw"
  idx,           \* number of loop iterations completed
  reqLog,        \* calls made on request / page so far, with their outcomes
  console,       \* console.log / console.warn lines that report a probe
  results,       \* accessibility test: const results = []
  healthMetrics, \* health check: const healthMetrics = {...}
  totalTests,    \* health check: let totalTests
  failedTests,   \* health check: let failedTests
  totalTime,     \* health check: let totalTime
  healthScore,   \* health check: const healthScore
  thrown,        \* global setup: the error caught at line 56, if any
  authDir,       \* setup: does test-results/.auth exist
  fixturesDir,   \* setup: does fixtures/ exist
  testDataFile,  \* setup: content of fixtures/generated-test-data.json
  authFile,      \* setup: content of test-results/.auth/user.json
  browser,       \* global setup: "none", "open", "closed"
  closes,        \* global setup: number of browser.close() calls
  performanceMetrics, \* performance test: const performanceMetrics = []
  metrics,       \* performance test: the in-page const metrics = {}
  clsValue,      \* performance test and Core Web Vitals: the in-page let clsValue
  delivered,     \* observer callbacks delivered in the current window
  lcp,           \* Core Web Vitals: const lcp
  cls,           \* Core Web Vitals: const cls
  shiftSeen,     \* Core Web Vitals: did the layout-shift observer fire
  open,          \* the in-page promises whose window timer has not fired yet
  paintLog,      \* largest-contentful-paint entries delivered in the window
  shiftLog,      \* layout-shift entries delivered in the window
  apiResults,    \* API integration test: const apiResults = []
  tempDir,       \* globalTeardown: does test-results/temp exist
  resultsDir,    \* globalTeardown: does test-results exist
  env,           \* process.env: BLOG_URL, API_URL, UPLOAD_URL and CRON_URL
  apps,          \* const apps = DEFAULT_CONFIG, once test-helpers.ts is loaded
  generatedTestData, \* setup: const generatedTestData, once it is built
  timeout,       \* waitForCondition: the timeout argument, ms
  interval,      \* waitForCondition: the interval argument, ms
  elapsed,       \* waitForCondition: Date.now() - startTime
  evaluations,   \* waitForCondition: the calls of condition, with their start time
  returned,      \* waitForCondition: the value returned, "none" before the return
  responses,     \* concurrency test: const responses, once Promise.all is fulfilled
  settleLog,     \* concurrency test: the requests in the order they settled
  inFlight,      \* accessibility and health loops: the targets whose request is pending
  navigationResults, \* navigation test: one record per visit (two if the screenshot fails)
  responseTimes, \* response-time test: const responseTimes = []
  promises,      \* concurrency test: const promises, "pending" or settled
  totalElapsed   \* concurrency test: const totalTime

common == <<test, pc, verdict, idx, reqLog, console>>

accessVars == <<results>>

healthVars == <<healthMetrics, totalTests, failedTests, totalTime, healthScore>>

setupVars == <<thrown, authDir, fixturesDir, testDataFile, authFile, browser, closes>>

perfVars == <<performanceMetrics, metrics, clsValue, delivered, lcp, cls, shiftSeen,
              open, paintLog, shiftLog>>

\* the non-empty entry lists an observer callback can still receive
Lists(S) ==
  UNION {[1..n -> S] : n \in 1..(MaxEntries - Len(paintLog) - Len(shiftLog))}

repeatVars == <<responseTimes, promises, totalElapsed>>

navVars == <<navigationResults>>

probeVars == <<inFlight>>

teardownVars == <<tempDir, resultsDir>>

apiVars == <<apiResults>>

configVars == <<env, apps, generatedTestData>>

waitVars == <<timeout, interval, elapsed, evaluations, returned>>

concVars == <<responses, settleLog>>

vars == <<common, apiVars,
         teardownVars,
         configVars, waitVars, probeVars, concVars, accessVars, healthVars, setupVars, perfVars, repeatVars, navVars>>

\* what a step of one test leaves alone: the other tests' variables
AccessFrame == UNCHANGED <<test, apiVars, teardownVars, configVars, waitVars, concVars, healthVars, setupVars, perfVars, repeatVars, navVars>>

HealthFrame == UNCHANGED <<test, apiVars, teardownVars, configVars, waitVars, concVars, accessVars, setupVars, perfVars, repeatVars, navVars>>

SetupFrame == UNCHANGED <<test, apiVars, teardownVars, configVars, waitVars, concVars, probeVars, accessVars, healthVars, perfVars, repeatVars, navVars>>

PerfFrame == UNCHANGED <<test, apiVars, teardownVars, configVars, waitVars, concVars, probeVars, accessVars, healthVars, setupVars, repeatVars, navVars>>

RepeatFrame == UNCHANGED <<test, apiVars, teardownVars, configVars, waitVars, concVars, probeVars, accessVars, healthVars, setupVars, perfVars, navVars>>

ConcFrame ==
  UNCHANGED <<test, apiVars, teardownVars, configVars, waitVars, probeVars, accessVars, healthVars, setupVars, perfVars, navVars>>

WaitFrame ==
  UNCHANGED <<test, apiVars, teardownVars, configVars, probeVars, concVars, accessVars, healthVars, setupVars, perfVars,
              repeatVars, navVars>>

ApiFrame ==
  UNCHANGED <<test, teardownVars, configVars, waitVars, probeVars, concVars, accessVars,
              healthVars, setupVars, perfVars, repeatVars, navVars>>

TeardownFrame ==
  UNCHANGED <<test, apiVars, configVars, waitVars, probeVars, concVars, accessVars, healthVars,
              setupVars, perfVars, repeatVars, navVars>>

ConfigFrame ==
  UNCHANGED <<test, apiVars, teardownVars, waitVars, probeVars, concVars, accessVars, healthVars, setupVars,
              perfVars, repeatVars, navVars>>

NavFrame == UNCHANGED <<test, apiVars, teardownVars, configVars, waitVars, concVars, probeVars, accessVars, healthVars, setupVars, perfVars, repeatVars>>

(* ---------- should verify all example applications are accessible ---------- *)

\* const appUrls = [...]
appUrls == <<"Blog", "Express API", "Image Upload", "Cron Monitor">>

\* variant: the upper edge of the range taken as inclusive
Accessible_Inclusive(status) == status >= 200 /\ status <= 400

\* accessible: response.status() >= 200 && response.status() < 400
Accessible(status) == status >= 200 /\ status < 400

\* the record pushed in the try block
AccessRecord(app, r) ==
  [name |-> app, status |-> r.status, responseTime |-> r.ms,
   accessible |-> Accessible(r.status), error |-> FALSE]

\* the record pushed in the catch block
AccessErrorRecord(app) ==
  [name |-> app, status |-> 0, responseTime |-> 0,
   accessible |-> FALSE, error |-> TRUE]

\* variant: the requests are all issued before any of them is awaited
AccessRequest_FanOut ==
  /\ test = "access" /\ pc \in {"loop", "await"}
  /\ idx + Cardinality(inFlight) < Len(appUrls)
  /\ inFlight' = inFlight \cup {idx + Cardinality(inFlight) + 1}
  /\ pc' = "await"
  /\ UNCHANGED <<verdict, idx, reqLog, console, results>>
  /\ AccessFrame

\* lines 24-27: the loop takes the next app and calls request.get(app.url);
\* the await suspends the loop until that request settles
AccessRequest ==
  /\ test = "access" /\ pc = "loop" /\ idx < Len(appUrls)
  /\ inFlight' = inFlight \cup {idx + 1}
  /\ pc' = "await"
  /\ UNCHANGED <<verdict, idx, reqLog, console, results>>
  /\ AccessFrame

\* variant: the request is not wrapped in try/catch, a rejection leaves the test
AccessProbe_NoCatch ==
  /\ test = "access" /\ pc = "await" /\ idx + 1 \in inFlight
  /\ inFlight' = inFlight \ {idx + 1}
  /\ \E r \in Outcomes :
       LET app == appUrls[idx + 1] IN
       /\ reqLog' = Append(reqLog, [call |-> "get", target |-> app, res |-> r])
       /\ results' = IF r.threw THEN results ELSE Append(results, AccessRecord(app, r))
       /\ verdict' = IF r.threw THEN "threw" ELSE verdict
       /\ pc' = IF r.threw THEN "done"
                ELSE IF idx + 1 = Len(appUrls) THEN "assert" ELSE "loop"
  /\ idx' = idx + 1
  /\ UNCHANGED console
  /\ AccessFrame

\* lines 27-51: the awaited request settles and the loop body records it
AccessProbe ==
  /\ test = "access" /\ pc = "await" /\ idx + 1 \in inFlight
  /\ inFlight' = inFlight \ {idx + 1}
  /\ \E r \in Outcomes :
       LET app == appUrls[idx + 1] IN
       /\ reqLog' = Append(reqLog, [call |-> "get", target |-> app, res |-> r])
       /\ results' = Append(results,
                            IF r.threw THEN AccessErrorRecord(app)
                                       ELSE AccessRecord(app, r))
  /\ idx' = idx + 1
  /\ pc' = IF idx + 1 = Len(appUrls) THEN "assert" ELSE "loop"
  /\ UNCHANGED <<verdict, console>>
  /\ AccessFrame

\* const accessibleApps = results.filter(r => r.accessible)
AccessibleResults == SelectSeq(results, LAMBDA r : r.accessible)

\* expect(accessibleApps.length).toBeGreaterThan(0)
AccessAssert ==
  /\ test = "access" /\ pc = "assert"
  /\ verdict' = IF Len(AccessibleResults) > 0 THEN "passed" ELSE "failed"
  /\ pc' = "done"
  /\ UNCHANGED <<idx, reqLog, console, results, inFlight>>
  /\ AccessFrame

(* ---------- should measure overall system health and integration ---------- *)

\* const testEndpoints = [...]
testEndpoints ==
  << [name |-> "Blog", type |-> "web"],
     [name |-> "API Data", type |-> "api"],
     [name |-> "API Root", type |-> "web"] >>

\* if (response.status() >= 200 && response.status() < 400)
HealthStatusOk(status) == status >= 200 /\ status < 400

\* variant: an API response outside the range is not counted as failed
HealthApiBranch_NoFail(r) ==
  /\ healthMetrics' =
       IF HealthStatusOk(r.status)
       THEN [healthMetrics EXCEPT !.accessibleApps = @ + 1, !.apiEndpoints = @ + 1]
       ELSE healthMetrics
  /\ failedTests' = failedTests
  /\ totalTime' = totalTime + r.ms

\* the api branch of the try block, given the response r
HealthApiBranch(r) ==
  /\ healthMetrics' =
       IF HealthStatusOk(r.status)
       THEN [healthMetrics EXCEPT !.accessibleApps = @ + 1, !.apiEndpoints = @ + 1]
       ELSE healthMetrics
  /\ failedTests' = IF HealthStatusOk(r.status) THEN failedTests ELSE failedTests + 1
  /\ totalTime' = totalTime + r.ms

\* the else branch of the try block: page.goto resolved with the response r
HealthWebBranch(r) ==
  /\ healthMetrics' = [healthMetrics EXCEPT !.accessibleApps = @ + 1]
  /\ failedTests' = failedTests
  /\ totalTime' = totalTime + r.ms

\* variant: the catch block only logs
HealthCatch_LogOnly == UNCHANGED <<failedTests, healthMetrics, totalTime>>

\* the catch block
HealthCatch ==
  /\ failedTests' = failedTests + 1
  /\ UNCHANGED <<healthMetrics, totalTime>>

\* lines 512-533: the loop takes the next endpoint, counts it and calls
\* request.get or page.goto; the await suspends the loop until it settles
HealthRequest ==
  /\ test = "health" /\ pc = "loop" /\ idx < Len(testEndpoints)
  /\ totalTests' = totalTests + 1
  /\ inFlight' = inFlight \cup {idx + 1}
  /\ pc' = "await"
  /\ UNCHANGED <<verdict, idx, reqLog, console>>
  /\ UNCHANGED <<healthMetrics, failedTests, totalTime, healthScore>>
  /\ HealthFrame

\* lines 519-542: the awaited call settles and the loop body accounts for it
HealthProbe ==
  /\ test = "health" /\ pc = "await" /\ idx + 1 \in inFlight
  /\ inFlight' = inFlight \ {idx + 1}
  /\ \E r \in Outcomes :
       LET endpoint == testEndpoints[idx + 1] IN
       /\ reqLog' = Append(reqLog,
                           [call |-> IF endpoint.type = "api" THEN "get" ELSE "goto",
                            target |-> endpoint.name, res |-> r])
       /\ IF r.threw THEN HealthCatch
          ELSE IF endpoint.type = "api" THEN HealthApiBranch(r)
          ELSE HealthWebBranch(r)
  /\ idx' = idx + 1
  /\ pc' = IF idx + 1 = Len(testEndpoints) THEN "summary" ELSE "loop"
  /\ UNCHANGED <<verdict, console, healthScore, totalTests>>
  /\ HealthFrame

\* healthMetrics after lines 545-547
HealthTotals ==
  [healthMetrics EXCEPT !.totalResponseTime = totalTime,
                        !.errorRate = Quot(failedTests * 100, totalTests),
                        !.averageLoadTime = Quot(totalTime, totalTests)]

\* variant: the load time is not checked
HealthExpects_NoLatency(m) ==
  /\ m.accessibleApps > 0
  /\ QuotLess(m.errorRate, 100)

\* the three expects of lines 556-558, on the totals m
HealthExpects(m) ==
  /\ m.accessibleApps > 0
  /\ QuotLess(m.errorRate, 100)
  /\ QuotLess(m.averageLoadTime, 30000)

\* variant: API endpoints counted twice in the score
HealthScoreOf_ApiTwice(m) ==
  Quot((m.accessibleApps + m.apiEndpoints) * 100, Len(testEndpoints))

\* const healthScore = (healthMetrics.accessibleApps / testEndpoints.length) * 100
HealthScoreOf(m) == Quot(m.accessibleApps * 100, Len(testEndpoints))

\* the counters before the loop, lines 494-510
HealthStart ==
  [accessibleApps |-> 0, apiEndpoints |-> 0, totalTests |-> 0, failedTests |-> 0,
   totalTime |-> 0]

\* variant: the accessible counter is set by each endpoint, not incremented
HealthStep_LastWins(acc, c) ==
  LET counted == [acc EXCEPT !.totalTests = @ + 1] IN
  IF c.res.threw
  THEN [counted EXCEPT !.failedTests = @ + 1, !.accessibleApps = 0]
  ELSE IF c.call = "get" /\ ~HealthStatusOk(c.res.status)
  THEN [counted EXCEPT !.failedTests = @ + 1, !.totalTime = @ + c.res.ms,
                       !.accessibleApps = 0]
  ELSE [counted EXCEPT !.accessibleApps = 1,
                       !.apiEndpoints = IF c.call = "get" THEN @ + 1 ELSE @,
                       !.totalTime = @ + c.res.ms]

\* lines 512-543 as a function: the counters after the loop body has run for
\* an endpoint probed with the call c.call whose outcome was c.res
HealthStep(acc, c) ==
  LET counted == [acc EXCEPT !.totalTests = @ + 1] IN
  IF c.res.threw
  THEN [counted EXCEPT !.failedTests = @ + 1]
  ELSE IF c.call = "get" /\ ~HealthStatusOk(c.res.status)
  THEN [counted EXCEPT !.failedTests = @ + 1, !.totalTime = @ + c.res.ms]
  ELSE [counted EXCEPT !.accessibleApps = @ + 1,
                       !.apiEndpoints = IF c.call = "get" THEN @ + 1 ELSE @,
                       !.totalTime = @ + c.res.ms]

\* the loop of lines 512-543 over the probed endpoints, in their order
RECURSIVE HealthFold(_, _)
HealthFold(acc, calls) ==
  IF calls = <<>> THEN acc ELSE HealthFold(HealthStep(acc, Head(calls)), Tail(calls))

\* lines 545-564 as a function of the counters: the error rate, the score and
\* whether the four expects hold
HealthResult(acc) ==
  LET m == [accessibleApps |-> acc.accessibleApps,
            totalResponseTime |-> acc.totalTime,
            apiEndpoints |-> acc.apiEndpoints,
            errorRate |-> Quot(acc.failedTests * 100, acc.totalTests),
            averageLoadTime |-> Quot(acc.totalTime, acc.totalTests)]
  IN  [errorRate |-> m.errorRate,
       healthScore |-> HealthScoreOf(m),
       passed |-> HealthExpects(m) /\ QuotGreater(HealthScoreOf(m), 0)]

\* the code after the loop: totals, the expects and the score
HealthSummary ==
  /\ test = "health" /\ pc = "summary"
  /\ healthMetrics' = HealthTotals
  /\ IF HealthExpects(HealthTotals)
     THEN /\ healthScore' = HealthScoreOf(HealthTotals)
          /\ verdict' = IF QuotGreater(HealthScoreOf(HealthTotals), 0)
                        THEN "passed" ELSE "failed"
     ELSE /\ healthScore' = healthScore
          /\ verdict' = "failed"
  /\ pc' = "done"
  /\ UNCHANGED <<idx, reqLog, console, totalTests, failedTests, totalTime, inFlight>>
  /\ HealthFrame

(* ---------- setup: authenticate and prepare test environment ---------- *)

\* const baseUrls = [...]
baseUrls == <<"http://localhost:3000", "http://localhost:3001",
              "http://localhost:3002", "http://localhost:3003">>

\* if (!fs.existsSync(authDir)) fs.mkdirSync(authDir, { recursive: true })
SetupMkdir ==
  /\ test = "setup" /\ pc = "mkdir"
  /\ authDir' = TRUE
  /\ pc' = "loop"
  /\ UNCHANGED <<verdict, idx, reqLog, console>>
  /\ UNCHANGED <<thrown, fixturesDir, testDataFile, authFile, browser, closes>>
  /\ SetupFrame

\* if (status >= 200 && status < 400)
SetupStatusOk(status) == status >= 200 /\ status < 400

\* the line the availability loop logs for url, given the outcome r
SetupLine(url, r) ==
  [url |-> url,
   line |-> IF r.threw THEN "not available"
            ELSE IF SetupStatusOk(r.status) THEN "available"
            ELSE "responded with"]

\* variant: a rejected request ends the availability loop
SetupProbe_Break ==
  /\ test = "setup" /\ pc = "loop" /\ idx < Len(baseUrls)
  /\ \E r \in StatusOutcomes :
       LET url == baseUrls[idx + 1] IN
       /\ reqLog' = Append(reqLog, [call |-> "get", target |-> url, res |-> r])
       /\ console' = Append(console, SetupLine(url, r))
       /\ pc' = IF r.threw \/ idx + 1 = Len(baseUrls) THEN "auth" ELSE "loop"
  /\ idx' = idx + 1
  /\ UNCHANGED <<verdict, setupVars>>
  /\ SetupFrame

\* one iteration of for (const url of baseUrls)
SetupProbe ==
  /\ test = "setup" /\ pc = "loop" /\ idx < Len(baseUrls)
  /\ \E r \in StatusOutcomes :
       LET url == baseUrls[idx + 1] IN
       /\ reqLog' = Append(reqLog, [call |-> "get", target |-> url, res |-> r])
       /\ console' = Append(console, SetupLine(url, r))
  /\ idx' = idx + 1
  /\ pc' = IF idx + 1 = Len(baseUrls) THEN "auth" ELSE "loop"
  /\ UNCHANGED <<verdict, setupVars>>
  /\ SetupFrame

\* variant: the catch block only logs
SetupAuth_NoFallback ==
  /\ test = "setup" /\ pc = "auth"
  /\ \E r \in StatusOutcomes, saved \in BOOLEAN :
       /\ reqLog' = Append(reqLog,
                           [call |-> "goto", target |-> baseUrls[1], res |-> r,
                            saved |-> ~r.threw /\ saved])
       /\ authFile' = IF ~r.threw /\ saved THEN "storageState" ELSE authFile
  /\ pc' = "fixtures"
  /\ UNCHANGED <<verdict, idx, console>>
  /\ UNCHANGED <<thrown, authDir, fixturesDir, testDataFile, browser, closes>>
  /\ SetupFrame

\* the try/catch of lines 613-637: page.goto, then storageState({ path: authFile });
\* either rejecting leads to the minimal auth state being written
SetupAuth ==
  /\ test = "setup" /\ pc = "auth"
  /\ \E r \in StatusOutcomes, saved \in BOOLEAN :
       /\ reqLog' = Append(reqLog,
                           [call |-> "goto", target |-> baseUrls[1], res |-> r,
                            saved |-> ~r.threw /\ saved])
       /\ authFile' = IF ~r.threw /\ saved THEN "storageState" ELSE "minimal"
  /\ pc' = "fixtures"
  /\ UNCHANGED <<verdict, idx, console>>
  /\ UNCHANGED <<thrown, authDir, fixturesDir, testDataFile, browser, closes>>
  /\ SetupFrame

\* lines 639-665: the fixtures directory and the generated test data file
SetupFixtures ==
  /\ test = "setup" /\ pc = "fixtures"
  /\ fixturesDir' = TRUE
  /\ testDataFile' = IF testDataFile = Absent THEN "generated" ELSE testDataFile
  /\ verdict' = "passed"
  /\ pc' = "done"
  /\ UNCHANGED <<idx, reqLog, console>>
  /\ UNCHANGED <<thrown, authDir, authFile, browser, closes>>
  /\ SetupFrame

(* ---------- globalSetup ---------- *)

\* lines 13-25: the directories, then await chromium.launch()
GSLaunch ==
  /\ test = "globalSetup" /\ pc = "launch"
  /\ authDir' = TRUE
  /\ fixturesDir' = TRUE
  /\ \E launched \in BOOLEAN :
       IF launched
       THEN browser' = "open" /\ pc' = "newPage" /\ verdict' = verdict
       ELSE browser' = browser /\ pc' = "done" /\ verdict' = "threw"
  /\ UNCHANGED <<idx, reqLog, console>>
  /\ UNCHANGED <<thrown, testDataFile, authFile, closes>>
  /\ SetupFrame

\* line 26: const page = await browser.newPage(), outside the try
GSNewPage ==
  /\ test = "globalSetup" /\ pc = "newPage"
  /\ \E opened \in BOOLEAN :
       IF opened
       THEN pc' = "storage" /\ verdict' = verdict
       ELSE pc' = "done" /\ verdict' = "threw"
  /\ UNCHANGED <<idx, reqLog, console, setupVars>>
  /\ SetupFrame

\* line 33: await page.context().storageState({ path }); a rejection goes to
\* the outer catch, which rethrows after the finally block
GSStorageState ==
  /\ test = "globalSetup" /\ pc = "storage"
  /\ \E saved \in BOOLEAN :
       IF saved
       THEN authFile' = "storageState" /\ thrown' = thrown /\ pc' = "blog"
       ELSE authFile' = authFile /\ thrown' = "storageState" /\ pc' = "finally"
  /\ UNCHANGED <<verdict, idx, reqLog, console>>
  /\ UNCHANGED <<authDir, fixturesDir, testDataFile, browser, closes>>
  /\ SetupFrame

\* the availability checks probed by global setup, in order
setupChecks == <<"http://localhost:3000", "http://localhost:3001">>

\* what one availability check logs: console.log in the try, console.warn in
\* the catch
GSLine(url, r) ==
  [url |-> url, line |-> IF r.threw THEN "warn" ELSE "accessible"]

\* lines 38-44 (blog) and 46-52 (Express API): try { page.goto } catch { warn }
GSCheck ==
  /\ test = "globalSetup" /\ pc \in {"blog", "api"}
  /\ \E r \in StatusOutcomes :
       LET url == setupChecks[idx + 1] IN
       /\ reqLog' = Append(reqLog, [call |-> "goto", target |-> url, res |-> r])
       /\ console' = Append(console, GSLine(url, r))
  /\ idx' = idx + 1
  /\ pc' = IF pc = "blog" THEN "api" ELSE "finally"
  /\ UNCHANGED <<verdict, setupVars>>
  /\ SetupFrame

\* finally { await browser.close() }, then the rethrow of line 58 if any
GSClose ==
  /\ test = "globalSetup" /\ pc = "finally"
  /\ browser' = "closed"
  /\ closes' = closes + 1
  /\ verdict' = IF thrown = "none" THEN "passed" ELSE "threw"
  /\ pc' = "done"
  /\ UNCHANGED <<idx, reqLog, console>>
  /\ UNCHANGED <<thrown, authDir, fixturesDir, testDataFile, authFile>>
  /\ SetupFrame

(* ---------- should measure cross-application performance ---------- *)

\* export const PERFORMANCE_THRESHOLDS; CLS (0.1) is in thousandths
PERFORMANCE_THRESHOLDS == [LCP |-> 2500, FID |-> 100, CLS |-> 100, TTFB |-> 600]

\* const testApps = [...]
testApps == <<"Blog", "Express API (via browser)">>

\* a number used as a condition: m.f is present and not 0
Truthy(m, f) == Has(m, f) /\ m[f] # 0

\* the record pushed by the catch block
PerfErrorRecord(app, message) == [app |-> app, error |-> message]

\* variant: the loop body does not wait for network idle
PerfNavigate_NoIdleWait ==
  /\ test = "perf" /\ pc = "loop" /\ idx < Len(testApps)
  /\ \E r \in PageOutcomes, idle \in BOOLEAN :
       LET app == testApps[idx + 1] IN
       /\ reqLog' = Append(reqLog, [call |-> "goto", target |-> app, res |-> r,
                                    idle |-> ~r.threw /\ idle])
       /\ IF r.threw
          THEN /\ performanceMetrics' =
                    Append(performanceMetrics, PerfErrorRecord(app, "goto"))
               /\ idx' = idx + 1
               /\ pc' = IF idx + 1 = Len(testApps) THEN "assert" ELSE "loop"
          ELSE /\ performanceMetrics' = performanceMetrics
               /\ idx' = idx
               /\ pc' = "evaluate"
  /\ UNCHANGED <<verdict, console, metrics, clsValue, delivered, lcp, cls, shiftSeen>>
  /\ UNCHANGED <<open, paintLog, shiftLog>>
  /\ PerfFrame

\* lines 81-82: page.goto, then page.waitForLoadState('networkidle'); a
\* rejection of either goes to the catch block. idle: do the page's requests
\* come to rest within the 15000 ms of line 82
PerfNavigate ==
  /\ test = "perf" /\ pc = "loop" /\ idx < Len(testApps)
  /\ \E r \in PageOutcomes, idle \in BOOLEAN :
       LET app == testApps[idx + 1] IN
       /\ reqLog' = Append(reqLog, [call |-> "goto", target |-> app, res |-> r,
                                    idle |-> ~r.threw /\ idle])
       /\ IF r.threw \/ ~idle
          THEN /\ performanceMetrics' =
                    Append(performanceMetrics,
                           PerfErrorRecord(app, IF r.threw THEN "goto" ELSE "networkidle"))
               /\ idx' = idx + 1
               /\ pc' = IF idx + 1 = Len(testApps) THEN "assert" ELSE "loop"
          ELSE /\ performanceMetrics' = performanceMetrics
               /\ idx' = idx
               /\ pc' = "evaluate"
  /\ UNCHANGED <<verdict, console, metrics, clsValue, delivered, lcp, cls, shiftSeen>>
  /\ UNCHANGED <<open, paintLog, shiftLog>>
  /\ PerfFrame

\* variant: the layout-shift accumulator is shared by the pages of the loop
PerfObserve_SharedCls ==
  /\ test = "perf" /\ pc = "evaluate"
  /\ \E fcpEntry \in FcpTimes \cup {-1} :
       metrics' = IF fcpEntry = -1 THEN Unset ELSE Put(Unset, "fcp", fcpEntry)
  /\ clsValue' = clsValue
  /\ delivered' = 0
  /\ open' = {"metrics"}
  /\ paintLog' = <<>>
  /\ shiftLog' = <<>>
  /\ pc' = "window"
  /\ UNCHANGED <<verdict, idx, reqLog, console, performanceMetrics, lcp, cls, shiftSeen>>
  /\ PerfFrame

\* lines 85-117, the synchronous part of the function evaluated in the page
\* just navigated to: fresh metrics and clsValue, the two observers are
\* registered, the first-contentful-paint entry is looked up and the 3000 ms
\* timer is armed
PerfObserve ==
  /\ test = "perf" /\ pc = "evaluate"
  /\ \E fcpEntry \in FcpTimes \cup {-1} :
       metrics' = IF fcpEntry = -1 THEN Unset ELSE Put(Unset, "fcp", fcpEntry)
  /\ clsValue' = 0
  /\ delivered' = 0
  /\ open' = {"metrics"}
  /\ paintLog' = <<>>
  /\ shiftLog' = <<>>
  /\ pc' = "window"
  /\ UNCHANGED <<verdict, idx, reqLog, console, performanceMetrics, lcp, cls, shiftSeen>>
  /\ PerfFrame

\* lines 90-95: the largest-contentful-paint observer callback
PerfLcpCallback ==
  /\ test = "perf" /\ pc = "window" /\ delivered < MaxCallbacks
  /\ \E entries \in Lists(LcpTimes) :
       /\ metrics' = IF Len(entries) > 0
                     THEN Put(metrics, "lcp", entries[Len(entries)])
                     ELSE metrics
       /\ paintLog' = paintLog \o entries
  /\ delivered' = delivered + 1
  /\ UNCHANGED <<pc, verdict, idx, reqLog, console>>
  /\ UNCHANGED <<performanceMetrics, clsValue, lcp, cls, shiftSeen, open, shiftLog>>
  /\ PerfFrame

\* the sum the layout-shift loop adds to clsValue for one entry list
RECURSIVE ShiftSum(_)
ShiftSum(entries) ==
  IF entries = <<>> THEN 0
  ELSE (IF ~entries[1].hadRecentInput THEN entries[1].value ELSE 0)
       + ShiftSum(Tail(entries))

\* lines 105-112: the layout-shift observer callback
PerfClsCallback ==
  /\ test = "perf" /\ pc = "window" /\ delivered < MaxCallbacks
  /\ \E entries \in Lists(ShiftEntries) :
       /\ clsValue' = clsValue + ShiftSum(entries)
       /\ metrics' = Put(metrics, "cls", clsValue + ShiftSum(entries))
       /\ shiftLog' = shiftLog \o entries
  /\ delivered' = delivered + 1
  /\ UNCHANGED <<pc, verdict, idx, reqLog, console>>
  /\ UNCHANGED <<performanceMetrics, lcp, cls, shiftSeen, open, paintLog>>
  /\ PerfFrame

\* variant: a value equal to the ceiling is accepted
LcpCheckFails_Inclusive(m) ==
  Truthy(m, "lcp") /\ m.lcp > 0 /\ ~(m.lcp <= PERFORMANCE_THRESHOLDS.LCP)

\* lines 132-134: does the LCP expectation throw
LcpCheckFails(m) ==
  Truthy(m, "lcp") /\ m.lcp > 0 /\ ~(m.lcp < PERFORMANCE_THRESHOLDS.LCP)

\* variant: the CLS expectation is not guarded by cls !== undefined
ClsCheckFails_Unguarded(m) ==
  ~Has(m, "cls") \/ ~(m.cls < PERFORMANCE_THRESHOLDS.CLS)

\* lines 136-138: does the CLS expectation throw
ClsCheckFails(m) ==
  Has(m, "cls") /\ ~(m.cls < PERFORMANCE_THRESHOLDS.CLS)

\* lines 121-146 for the resolved metrics m: the push of the metrics record
\* and, when an expectation throws, the push of the catch block
PerfRecords(app, m) ==
  <<Put(m, "app", app)>>
  \o (IF LcpCheckFails(m) THEN <<PerfErrorRecord(app, "expect LCP")>>
      ELSE IF ClsCheckFails(m) THEN <<PerfErrorRecord(app, "expect CLS")>>
      ELSE <<>>)

\* variant: the promise is resolved by the observers, not by a timer
PerfWindowClosed_OnSignal ==
  /\ test = "perf" /\ pc = "window" /\ delivered > 0
  /\ performanceMetrics' = performanceMetrics \o PerfRecords(testApps[idx + 1], metrics)
  /\ idx' = idx + 1
  /\ open' = {}
  /\ pc' = IF idx + 1 = Len(testApps) THEN "assert" ELSE "loop"
  /\ UNCHANGED <<verdict, reqLog, console, metrics, clsValue, delivered, lcp, cls, shiftSeen>>
  /\ UNCHANGED <<paintLog, shiftLog>>
  /\ PerfFrame

\* lines 115-117 and 121-146: the timer resolves the promise with metrics,
\* and the loop body goes on with the resolved value
PerfWindowClosed ==
  /\ test = "perf" /\ pc = "window"
  /\ performanceMetrics' = performanceMetrics \o PerfRecords(testApps[idx + 1], metrics)
  /\ idx' = idx + 1
  /\ open' = {}
  /\ pc' = IF idx + 1 = Len(testApps) THEN "assert" ELSE "loop"
  /\ UNCHANGED <<verdict, reqLog, console, metrics, clsValue, delivered, lcp, cls, shiftSeen>>
  /\ UNCHANGED <<paintLog, shiftLog>>
  /\ PerfFrame

\* const appsWithMetrics = performanceMetrics.filter(m => m.lcp || m.fcp || m.cls !== undefined)
appsWithMetrics ==
  SelectSeq(performanceMetrics,
            LAMBDA m : Truthy(m, "lcp") \/ Truthy(m, "fcp") \/ Has(m, "cls"))

\* expect(appsWithMetrics.length).toBeGreaterThan(0)
PerfAssert ==
  /\ test = "perf" /\ pc = "assert"
  /\ verdict' = IF Len(appsWithMetrics) > 0 THEN "passed" ELSE "failed"
  /\ pc' = "done"
  /\ UNCHANGED <<idx, reqLog, console, perfVars>>
  /\ PerfFrame

(* ---------- should measure Core Web Vitals ---------- *)

\* line 895: await page.goto(blogUrl), not in a try block
VitalsGoto ==
  /\ test = "vitals" /\ pc = "goto"
  /\ \E r \in PageOutcomes :
       /\ reqLog' = Append(reqLog, [call |-> "goto", target |-> "Blog", res |-> r])
       /\ verdict' = IF r.threw THEN "threw" ELSE verdict
       /\ pc' = IF r.threw THEN "done" ELSE "lcp"
       /\ open' = IF r.threw THEN open ELSE {"lcp"}
  /\ UNCHANGED <<idx, console>>
  /\ UNCHANGED <<performanceMetrics, metrics, clsValue, delivered, lcp, cls, shiftSeen>>
  /\ UNCHANGED <<paintLog, shiftLog>>
  /\ PerfFrame

\* lines 900-904: a largest-contentful-paint callback. The first call of
\* resolve settles the promise with the last entry of the list, and the test
\* goes on to the second page.evaluate (lines 912-927), which registers the
\* layout-shift observer; resolve has no effect on a settled promise
VitalsLcpCallback ==
  /\ test = "vitals" /\ pc # "done" /\ "lcp" \in open /\ delivered < MaxCallbacks
  /\ \E entries \in Lists(LcpTimes) :
       /\ paintLog' = paintLog \o entries
       /\ lcp' = IF pc = "lcp" THEN entries[Len(entries)] ELSE lcp
  /\ delivered' = delivered + 1
  /\ pc' = IF pc = "lcp" THEN "cls" ELSE pc
  /\ open' = IF pc = "lcp" THEN open \cup {"cls"} ELSE open
  /\ UNCHANGED <<verdict, idx, reqLog, console>>
  /\ UNCHANGED <<performanceMetrics, metrics, clsValue, cls, shiftSeen, shiftLog>>
  /\ PerfFrame

\* line 907: the 5000 ms timer of the LCP promise, setTimeout(() => resolve(0))
VitalsLcpTimer ==
  /\ test = "vitals" /\ pc # "done" /\ "lcp" \in open
  /\ lcp' = IF pc = "lcp" THEN 0 ELSE lcp
  /\ pc' = IF pc = "lcp" THEN "cls" ELSE pc
  /\ open' = (open \ {"lcp"}) \cup (IF pc = "lcp" THEN {"cls"} ELSE {})
  /\ UNCHANGED <<verdict, idx, reqLog, console>>
  /\ UNCHANGED <<performanceMetrics, metrics, clsValue, delivered, cls, shiftSeen>>
  /\ UNCHANGED <<paintLog, shiftLog>>
  /\ PerfFrame

\* lines 915-921: a layout-shift callback adds to clsValue and calls
\* resolve(clsValue); the first call of resolve settles the promise
VitalsClsCallback ==
  /\ test = "vitals" /\ pc # "done" /\ "cls" \in open /\ delivered < MaxCallbacks
  /\ \E entries \in Lists(ShiftEntries) :
       /\ shiftLog' = shiftLog \o entries
       /\ clsValue' = clsValue + ShiftSum(entries)
       /\ cls' = IF pc = "cls" THEN clsValue + ShiftSum(entries) ELSE cls
  /\ shiftSeen' = TRUE
  /\ delivered' = delivered + 1
  /\ pc' = IF pc = "cls" THEN "assert" ELSE pc
  /\ UNCHANGED <<verdict, idx, reqLog, console>>
  /\ UNCHANGED <<performanceMetrics, metrics, lcp, open, paintLog>>
  /\ PerfFrame

\* line 925: the 5000 ms timer of the CLS promise, resolve(clsValue)
VitalsClsTimer ==
  /\ test = "vitals" /\ pc # "done" /\ "cls" \in open
  /\ cls' = IF pc = "cls" THEN clsValue ELSE cls
  /\ pc' = IF pc = "cls" THEN "assert" ELSE pc
  /\ open' = open \ {"cls"}
  /\ UNCHANGED <<verdict, idx, reqLog, console>>
  /\ UNCHANGED <<performanceMetrics, metrics, clsValue, delivered, lcp, shiftSeen>>
  /\ UNCHANGED <<paintLog, shiftLog>>
  /\ PerfFrame

\* lines 934-936: does the LCP expectation throw
VitalsLcpFails == lcp > 0 /\ ~(lcp < PERFORMANCE_THRESHOLDS.LCP)

\* lines 938-940: does the CLS expectation throw
VitalsClsFails == ~(cls < PERFORMANCE_THRESHOLDS.CLS)

\* lines 933-940: the two expectations, not in a try block
VitalsAssert ==
  /\ test = "vitals" /\ pc = "assert"
  /\ verdict' = IF VitalsLcpFails \/ VitalsClsFails THEN "failed" ELSE "passed"
  /\ pc' = "done"
  /\ UNCHANGED <<idx, reqLog, console, perfVars>>
  /\ PerfFrame

(* ---------- should handle navigation between example applications ---------- *)

\* const navigationFlow = [...]
navigationFlow == <<"Blog", "API Demo">>

\* lines 317-324: the record of a visited page
NavRecord(app) == [app |-> app, success |-> TRUE]

\* lines 338-343: the record pushed by the catch block
NavErrorRecord(app) == [app |-> app, success |-> FALSE]

\* lines 302-345, one turn of the loop: page.goto (it resolves at the load
\* event, for any response status), page.waitForLoadState('domcontentloaded'),
\* the record, then the screenshot; a rejection of page.goto or of the
\* screenshot goes to the catch block. idle: do the page's requests ever come
\* to rest (nothing here waits for it)
NavVisit ==
  /\ test = "nav" /\ pc = "loop" /\ idx < Len(navigationFlow)
  /\ \E r \in PageOutcomes, idle \in BOOLEAN, shot \in BOOLEAN :
       LET app == navigationFlow[idx + 1] IN
       /\ reqLog' = Append(reqLog, [call |-> "goto", target |-> app, res |-> r,
                                    idle |-> ~r.threw /\ idle])
       /\ navigationResults' =
            IF r.threw THEN Append(navigationResults, NavErrorRecord(app))
            ELSE IF shot THEN Append(navigationResults, NavRecord(app))
            ELSE navigationResults \o <<NavRecord(app), NavErrorRecord(app)>>
  /\ idx' = idx + 1
  /\ pc' = IF idx + 1 = Len(navigationFlow) THEN "assert" ELSE "loop"
  /\ UNCHANGED <<verdict, console>>
  /\ NavFrame

\* const successfulNavigations = navigationResults.filter(r => r.success)
successfulNavigations == SelectSeq(navigationResults, LAMBDA r : r.success)

\* lines 349-350: expect(successfulNavigations.length).toBeGreaterThan(0)
NavAssert ==
  /\ test = "nav" /\ pc = "assert"
  /\ verdict' = IF Len(successfulNavigations) > 0 THEN "passed" ELSE "failed"
  /\ pc' = "done"
  /\ UNCHANGED <<idx, reqLog, console, navigationResults>>
  /\ NavFrame

(* ---------- should measure API response times consistently ---------- *)

\* export const HTTP_STATUS
HTTP_STATUS == [OK |-> 200, CREATED |-> 201, BAD_REQUEST |-> 400,
                UNAUTHORIZED |-> 401, FORBIDDEN |-> 403, NOT_FOUND |-> 404,
                INTERNAL_SERVER_ERROR |-> 500]

\* const iterations = 5
iterations == 5

\* one iteration of the for loop of lines 275-285: a rejected request leaves
\* the test, a status other than 200 fails the expect of line 280
RepeatProbe ==
  /\ test = "repeat" /\ pc = "loop" /\ idx < iterations
  /\ \E r \in Outcomes :
       /\ reqLog' = Append(reqLog, [call |-> "get", target |-> "/api/data", res |-> r])
       /\ IF r.threw
          THEN verdict' = "threw" /\ pc' = "done" /\ responseTimes' = responseTimes
          ELSE IF r.status # HTTP_STATUS.OK
          THEN verdict' = "failed" /\ pc' = "done" /\ responseTimes' = responseTimes
          ELSE /\ verdict' = verdict
               /\ responseTimes' = Append(responseTimes, r.ms)
               /\ pc' = IF idx + 1 = iterations THEN "stats" ELSE "loop"
  /\ idx' = idx + 1
  /\ UNCHANGED <<console, promises, totalElapsed>>
  /\ RepeatFrame

\* responseTimes.reduce((a, b) => a + b)
RECURSIVE SumSeq(_)
SumSeq(q) == IF q = <<>> THEN 0 ELSE q[1] + SumSeq(Tail(q))

\* Math.max(...responseTimes)
MaxOf(q) == CHOOSE x \in {q[k] : k \in 1..Len(q)} : \A k \in 1..Len(q) : q[k] <= x

\* Math.min(...responseTimes)
MinOf(q) == CHOOSE x \in {q[k] : k \in 1..Len(q)} : \A k \in 1..Len(q) : q[k] >= x

\* lines 287-302: the statistics and their three expectations
RepeatStats ==
  /\ test = "repeat" /\ pc = "stats"
  /\ verdict' =
       IF /\ QuotLess(Quot(SumSeq(responseTimes), Len(responseTimes)), 5000)
          /\ MaxOf(responseTimes) < 15000
          /\ MaxOf(responseTimes) - MinOf(responseTimes) < 10000
       THEN "passed" ELSE "failed"
  /\ pc' = "done"
  /\ UNCHANGED <<idx, reqLog, console, repeatVars>>
  /\ RepeatFrame

(* ---------- should handle concurrent requests efficiently ---------- *)

\* a request in flight, and a settled one: fulfilled with a response of
\* some status, or rejected
Pending == [state |-> "pending", status |-> 0]

Settled(r) == [state |-> IF r.threw THEN "rejected" ELSE "fulfilled",
               status |-> r.status]

\* lines 207-209: Array.from starts every request before anything is awaited
ConcStart ==
  /\ test = "concurrent" /\ pc = "start"
  /\ promises' = [k \in 1..MaxConcurrent |-> Pending]
  /\ pc' = "await"
  /\ UNCHANGED <<verdict, idx, reqLog, console, responseTimes, totalElapsed>>
  /\ UNCHANGED <<responses, settleLog>>
  /\ ConcFrame

\* the environment settles one of the requests in flight, in any order
ConcSettle ==
  /\ test = "concurrent" /\ pc = "await"
  /\ \E k \in 1..Len(promises), r \in StatusOutcomes :
       /\ promises[k] = Pending
       /\ promises' = [promises EXCEPT ![k] = Settled(r)]
       /\ settleLog' = Append(settleLog, k)
  /\ UNCHANGED <<pc, verdict, idx, reqLog, console, responseTimes, totalElapsed>>
  /\ UNCHANGED responses
  /\ ConcFrame

\* has one of the promises rejected
SomeRejected == \E k \in 1..Len(promises) : promises[k].state = "rejected"

\* has Promise.all(promises) settled: every request fulfilled, or one rejected
AllSettled ==
  \/ \A k \in 1..Len(promises) : promises[k].state = "fulfilled"
  \/ SomeRejected

\* variant: the responses are collected in the order the requests settled
AllResponses_AsSettled ==
  [j \in 1..Len(settleLog) |->
     [request |-> settleLog[j], status |-> promises[settleLog[j]].status]]

\* line 211: the value of a fulfilled Promise.all(promises), the responses in
\* the order of the promises array
AllResponses ==
  [k \in 1..Len(promises) |-> [request |-> k, status |-> promises[k].status]]

\* variant: one response with status 200 is enough
ConcStatusesOk_Any ==
  \E k \in 1..Len(AllResponses) : AllResponses[k].status = HTTP_STATUS.OK

\* lines 215-217: every response must have status 200
ConcStatusesOk ==
  \A k \in 1..Len(AllResponses) : AllResponses[k].status = HTTP_STATUS.OK

\* lines 211-221: await Promise.all, the status loop and the average
ConcJoin ==
  /\ test = "concurrent" /\ pc = "await" /\ AllSettled
  /\ responses' = IF SomeRejected THEN responses ELSE AllResponses
  /\ \E t \in Latencies :
       /\ totalElapsed' = t
       /\ verdict' =
            IF SomeRejected THEN "threw"
            ELSE IF ConcStatusesOk /\ QuotLess(Quot(t, Len(promises)), 10000)
            THEN "passed" ELSE "failed"
  /\ pc' = "done"
  /\ UNCHANGED <<idx, reqLog, console, responseTimes, promises, settleLog>>
  /\ ConcFrame

(* ---------- should validate API integration patterns ---------- *)

\* const apiTests = [...]
apiTests ==
  << [name |-> "Express API Health", expectedStatus |-> HTTP_STATUS.OK,
      expectedContentType |-> "application/json"],
     [name |-> "Express API Root", expectedStatus |-> HTTP_STATUS.OK,
      expectedContentType |-> "text/html"] >>

\* the content-type header values of the model, each as the pieces of its
\* text; the empty sequence is a response without the header (undefined)
ContentTypes ==
  { <<>>,
    <<"application/json">>,
    <<"application/json", "; charset=utf-8">>,
    <<"text/html", "; charset=utf-8">>,
    <<"text/plain">> }

\* contentType?.includes(expected) || false
Includes(contentType, expected) ==
  \E k \in 1..Len(contentType) : contentType[k] = expected

\* what request.get can do here: reject, or resolve with a status and headers
ApiOutcomes ==
  {[threw |-> TRUE, status |-> 0, ms |-> 0, contentType |-> <<>>]}
  \cup [threw : {FALSE}, status : {200, 404}, ms : {0}, contentType : ContentTypes]

\* variant: the status alone decides
ApiSuccess_StatusOnly(apiTest, r) == r.status = apiTest.expectedStatus

\* lines 248-249: success
ApiSuccess(apiTest, r) ==
  r.status = apiTest.expectedStatus /\ Includes(r.contentType, apiTest.expectedContentType)

\* lines 243-250: const result
ApiResult(apiTest, r) ==
  [name |-> apiTest.name, status |-> r.status, contentType |-> r.contentType,
   success |-> ApiSuccess(apiTest, r)]

\* lines 274-279: the record pushed by the catch block
ApiErrorResult(apiTest) == [name |-> apiTest.name, success |-> FALSE, error |-> TRUE]

\* lines 240-282, one turn of the loop. body: does reading the body go
\* through (response.json() or response.text() resolves and the expect on it
\* holds); it is read only for a result with success
ApiProbe ==
  /\ test = "api" /\ pc = "loop" /\ idx < Len(apiTests)
  /\ \E r \in ApiOutcomes, body \in BOOLEAN :
       LET apiTest == apiTests[idx + 1] IN
       /\ reqLog' = Append(reqLog, [call |-> "get", target |-> apiTest.name, res |-> r,
                                    body |-> r.threw \/ ~ApiSuccess(apiTest, r) \/ body])
       /\ apiResults' =
            IF r.threw THEN Append(apiResults, ApiErrorResult(apiTest))
            ELSE IF ApiSuccess(apiTest, r) /\ ~body
            THEN apiResults \o <<ApiResult(apiTest, r), ApiErrorResult(apiTest)>>
            ELSE Append(apiResults, ApiResult(apiTest, r))
  /\ idx' = idx + 1
  /\ pc' = IF idx + 1 = Len(apiTests) THEN "assert" ELSE "loop"
  /\ UNCHANGED <<verdict, console>>
  /\ ApiFrame

\* const successfulApis = apiResults.filter(r => r.success)
successfulApis == SelectSeq(apiResults, LAMBDA r : r.success)

\* lines 286-287: expect(successfulApis.length).toBeGreaterThan(0)
ApiAssert ==
  /\ test = "api" /\ pc = "assert"
  /\ verdict' = IF Len(successfulApis) > 0 THEN "passed" ELSE "failed"
  /\ pc' = "done"
  /\ UNCHANGED <<idx, reqLog, console, apiResults>>
  /\ ApiFrame

(* ---------- globalTeardown ---------- *)

\* a line of the teardown's console output
TeardownLine(text) == [url |-> "", line |-> text]

\* variant: the catch block throws the error again
TeardownTemp_Rethrow ==
  /\ test = "globalTeardown" /\ pc = "temp"
  /\ IF tempDir
     THEN \E removed \in BOOLEAN :
            /\ reqLog' = Append(reqLog, [call |-> "rmSync", target |-> "test-results/temp",
                                         res |-> [threw |-> ~removed, status |-> 0,
                                                  ms |-> 0]])
            /\ tempDir' = ~removed
            /\ console' = Append(console, TeardownLine(IF removed THEN "cleaned"
                                                                  ELSE "failed"))
            /\ pc' = IF removed THEN "results" ELSE "done"
            /\ verdict' = IF removed THEN verdict ELSE "threw"
     ELSE /\ pc' = "results"
          /\ UNCHANGED <<reqLog, tempDir, console, verdict>>
  /\ UNCHANGED <<idx, resultsDir>>
  /\ TeardownFrame

\* lines 12-18 and 28-31: if the temporary directory exists it is removed
\* with fs.rmSync; an error thrown by rmSync goes to the catch block, which
\* logs it, and globalTeardown returns
TeardownTemp ==
  /\ test = "globalTeardown" /\ pc = "temp"
  /\ IF tempDir
     THEN \E removed \in BOOLEAN :
            /\ reqLog' = Append(reqLog, [call |-> "rmSync", target |-> "test-results/temp",
                                         res |-> [threw |-> ~removed, status |-> 0,
                                                  ms |-> 0]])
            /\ tempDir' = ~removed
            /\ console' = Append(console, TeardownLine(IF removed THEN "cleaned"
                                                                  ELSE "failed"))
            /\ pc' = IF removed THEN "results" ELSE "done"
            /\ verdict' = IF removed THEN verdict ELSE "passed"
     ELSE /\ pc' = "results"
          /\ UNCHANGED <<reqLog, tempDir, console, verdict>>
  /\ UNCHANGED <<idx, resultsDir>>
  /\ TeardownFrame

\* lines 20-26: the results directory is reported if it exists, then the
\* completion line; fs.existsSync does not throw
TeardownResults ==
  /\ test = "globalTeardown" /\ pc = "results"
  /\ console' = console \o (IF resultsDir THEN <<TeardownLine("preserved")>> ELSE <<>>)
                        \o <<TeardownLine("completed")>>
  /\ verdict' = "passed"
  /\ pc' = "done"
  /\ UNCHANGED <<idx, reqLog, tempDir, resultsDir>>
  /\ TeardownFrame

(* ---------- the configured target URLs ---------- *)

\* the environment variables that name the targets
EnvNames == {"BLOG_URL", "API_URL", "UPLOAD_URL", "CRON_URL"}

\* what process.env holds for one of them: nothing, the empty string or a URL
EnvValues == {Absent, "", "http://staging.example:8080"}

Envs == [EnvNames -> EnvValues]

\* process.env.X || d: an absent or empty variable gives the default d
OrDefault(v, d) == IF v = Absent \/ v = "" THEN d ELSE v

\* README, Environment Variables: the documented URL of each target
DocumentedDefaults ==
  [BLOG_URL |-> "http://localhost:3000", API_URL |-> "http://localhost:3001",
   UPLOAD_URL |-> "http://localhost:3002", CRON_URL |-> "http://localhost:3003"]

\* export const DEFAULT_CONFIG
DEFAULT_CONFIG(e) ==
  [blogUrl |-> OrDefault(e.BLOG_URL, "http://localhost:3000"),
   apiUrl |-> OrDefault(e.API_URL, "http://localhost:3000"),
   uploadUrl |-> OrDefault(e.UPLOAD_URL, "http://localhost:3000"),
   cronUrl |-> OrDefault(e.CRON_URL, "http://localhost:3000")]

\* lines 653-658: the apps of generatedTestData
GeneratedApps(e) ==
  [blog |-> OrDefault(e.BLOG_URL, "http://localhost:3000"),
   api |-> OrDefault(e.API_URL, "http://localhost:3001"),
   upload |-> OrDefault(e.UPLOAD_URL, "http://localhost:3002"),
   cron |-> OrDefault(e.CRON_URL, "http://localhost:3003")]

\* multi-app-integration.spec.ts line 10, const apps = DEFAULT_CONFIG: the
\* module test-helpers.ts is evaluated when the spec file is loaded
ConfigLoad ==
  /\ test = "config" /\ pc = "loop" /\ apps = Unset
  /\ apps' = DEFAULT_CONFIG(env)
  /\ pc' = IF generatedTestData # Unset THEN "done" ELSE pc
  /\ verdict' = IF generatedTestData # Unset THEN "passed" ELSE verdict
  /\ UNCHANGED <<idx, reqLog, console, env, generatedTestData>>
  /\ ConfigFrame

\* lines 649-659: the setup test builds generatedTestData
ConfigTestData ==
  /\ test = "config" /\ pc = "loop" /\ generatedTestData = Unset
  /\ generatedTestData' = [environment |-> "test", apps |-> GeneratedApps(env)]
  /\ pc' = IF apps # Unset THEN "done" ELSE pc
  /\ verdict' = IF apps # Unset THEN "passed" ELSE verdict
  /\ UNCHANGED <<idx, reqLog, console, env, apps>>
  /\ ConfigFrame

(* ---------- waitForCondition ---------- *)

\* the timeout and interval arguments the model calls waitForCondition with
\* (the defaults of the parameters are 10000 and 500)
Timeouts == {0, 1000, 1500}

Intervals == {500, 700}

\* how long one evaluation of condition can take, ms
Durations == {0, 400}

\* what one evaluation of condition can do
ConditionOutcomes == {"true", "false", "throws"}

\* variant: the loop runs while the elapsed time is at most the timeout
WaitCheck_Inclusive ==
  /\ test = "wait" /\ pc = "check"
  /\ IF elapsed <= timeout
     THEN pc' = "condition" /\ returned' = returned /\ verdict' = verdict
     ELSE pc' = "done" /\ returned' = "false" /\ verdict' = "passed"
  /\ UNCHANGED <<idx, reqLog, console, timeout, interval, elapsed, evaluations>>
  /\ WaitFrame

\* line 30 and line 37: while (Date.now() - startTime < timeout), and the
\* return false after the loop
WaitCheck ==
  /\ test = "wait" /\ pc = "check"
  /\ IF elapsed < timeout
     THEN pc' = "condition" /\ returned' = returned /\ verdict' = verdict
     ELSE pc' = "done" /\ returned' = "false" /\ verdict' = "passed"
  /\ UNCHANGED <<idx, reqLog, console, timeout, interval, elapsed, evaluations>>
  /\ WaitFrame

\* variant: the loop goes on polling after the condition returned true
WaitCondition_KeepPolling ==
  /\ test = "wait" /\ pc = "condition"
  /\ \E c \in ConditionOutcomes, d \in Durations :
       /\ evaluations' = Append(evaluations, [at |-> elapsed, value |-> c])
       /\ elapsed' = elapsed + d
       /\ returned' = returned
       /\ verdict' = IF c = "throws" THEN "threw" ELSE verdict
       /\ pc' = IF c = "throws" THEN "done" ELSE "sleep"
  /\ UNCHANGED <<idx, reqLog, console, timeout, interval>>
  /\ WaitFrame

\* lines 31-33: if (await condition()) return true; a rejection of condition()
\* leaves waitForCondition
WaitCondition ==
  /\ test = "wait" /\ pc = "condition"
  /\ \E c \in ConditionOutcomes, d \in Durations :
       /\ evaluations' = Append(evaluations, [at |-> elapsed, value |-> c])
       /\ elapsed' = elapsed + d
       /\ returned' = IF c = "true" THEN "true" ELSE returned
       /\ verdict' = IF c = "true" THEN "passed"
                     ELSE IF c = "throws" THEN "threw" ELSE verdict
       /\ pc' = IF c = "false" THEN "sleep" ELSE "done"
  /\ UNCHANGED <<idx, reqLog, console, timeout, interval>>
  /\ WaitFrame

\* variant: the sleep is cut short
WaitSleep_Short ==
  /\ test = "wait" /\ pc = "sleep"
  /\ elapsed' = elapsed + interval - 100
  /\ pc' = "check"
  /\ UNCHANGED <<verdict, idx, reqLog, console, timeout, interval, evaluations, returned>>
  /\ WaitFrame

\* line 34: await new Promise(resolve => setTimeout(resolve, interval))
WaitSleep ==
  /\ test = "wait" /\ pc = "sleep"
  /\ elapsed' = elapsed + interval
  /\ pc' = "check"
  /\ UNCHANGED <<verdict, idx, reqLog, console, timeout, interval, evaluations, returned>>
  /\ WaitFrame

(* ---------- specification ---------- *)

\* where each test function starts
FirstPc(t) ==
  CASE t = "setup" -> "mkdir"
    [] t = "globalSetup" -> "launch"
    [] t = "vitals" -> "goto"
    [] t = "concurrent" -> "start"
    [] t = "wait" -> "check"
    [] t = "globalTeardown" -> "temp"
    [] OTHER -> "loop"

Init ==
  /\ test \in Tests
  /\ pc = FirstPc(test)
  /\ verdict = "running"
  /\ idx = 0
  /\ reqLog = <<>>
  /\ console = <<>>
  /\ results = <<>>
  /\ healthMetrics = [accessibleApps |-> 0, totalResponseTime |-> 0,
                      apiEndpoints |-> 0, errorRate |-> Quot(0, 1),
                      averageLoadTime |-> Quot(0, 1)]
  /\ totalTests = 0
  /\ failedTests = 0
  /\ totalTime = 0
  /\ healthScore = Unset
  /\ thrown = "none"
  /\ authDir \in (IF test \in {"setup", "globalSetup"} THEN BOOLEAN ELSE {FALSE})
  /\ fixturesDir = FALSE
  /\ testDataFile = Absent
  /\ authFile = Absent
  /\ browser = "none"
  /\ closes = 0
  /\ performanceMetrics = <<>>
  /\ metrics = Unset
  /\ clsValue = 0
  /\ delivered = 0
  /\ lcp = 0
  /\ cls = 0
  /\ shiftSeen = FALSE
  /\ open = {}
  /\ paintLog = <<>>
  /\ shiftLog = <<>>
  /\ navigationResults = <<>>
  /\ inFlight = {}
  /\ env \in (IF test = "config" THEN Envs ELSE {[n \in EnvNames |-> Absent]})
  /\ apps = Unset
  /\ apiResults = <<>>
  /\ resultsDir \in (IF test = "globalTeardown" THEN BOOLEAN ELSE {FALSE})
  /\ tempDir \in (IF test = "globalTeardown" /\ resultsDir THEN BOOLEAN ELSE {FALSE})
  /\ generatedTestData = Unset
  /\ timeout \in (IF test = "wait" THEN Timeouts ELSE {10000})
  /\ interval \in (IF test = "wait" THEN Intervals ELSE {500})
  /\ elapsed = 0
  /\ evaluations = <<>>
  /\ returned = "none"
  /\ responses = <<>>
  /\ settleLog = <<>>
  /\ responseTimes = <<>>
  /\ promises = <<>>
  /\ totalElapsed = 0

Next ==
  \/ ApiProbe
  \/ ApiAssert
  \/ TeardownTemp
  \/ TeardownResults
  \/ ConfigLoad
  \/ ConfigTestData
  \/ WaitCheck
  \/ WaitCondition
  \/ WaitSleep
  \/ AccessRequest
  \/ HealthRequest
  \/ NavVisit
  \/ NavAssert
  \/ AccessProbe
  \/ AccessAssert
  \/ HealthProbe
  \/ HealthSummary
  \/ SetupMkdir
  \/ SetupProbe
  \/ SetupAuth
  \/ SetupFixtures
  \/ GSLaunch
  \/ GSNewPage
  \/ GSStorageState
  \/ GSCheck
  \/ GSClose
  \/ PerfNavigate
  \/ PerfObserve
  \/ PerfLcpCallback
  \/ PerfClsCallback
  \/ PerfWindowClosed
  \/ PerfAssert
  \/ VitalsGoto
  \/ VitalsLcpCallback
  \/ VitalsLcpTimer
  \/ VitalsClsCallback
  \/ VitalsClsTimer
  \/ VitalsAssert
  \/ RepeatProbe
  \/ RepeatStats
  \/ ConcStart
  \/ ConcSettle
  \/ ConcJoin

Spec == Init /\ [][Next]_vars

\* the timers set with setTimeout in the page (lines 115-117, 907 and 925)
\* fire once their delay has passed: the page's event loop runs them
LiveSpec ==
  /\ Spec
  /\ WF_vars(PerfWindowClosed)
  /\ WF_vars(VitalsLcpTimer)
  /\ WF_vars(VitalsClsTimer)

\* waitForCondition with a condition whose every evaluation settles and a
\* clock that advances: each step of the function is eventually taken
WaitLiveSpec ==
  /\ Spec
  /\ WF_vars(WaitCheck)
  /\ WF_vars(WaitCondition)
  /\ WF_vars(WaitSleep)

(* ---------- properties ---------- *)

\* the success range of the specification: [200, 400)
InRange(status) == 200 <= status /\ status < 400

\* a logged call that returned a response with a status in [200, 400)
Succeeded(c) == ~c.res.threw /\ InRange(c.res.status)

\* the positions of reqLog that satisfy P
Calls(P(_)) == {k \in 1..Len(reqLog) : P(reqLog[k])}

\* the targets of the calls of reqLog made with the method call, in order
TargetsOf(call) ==
  LET made == SelectSeq(reqLog, LAMBDA c : c.call = call)
  IN  [k \in 1..Len(made) |-> made[k].target]

\* C1: a request-based probe is recorded as successful exactly when a
\* response arrived with a status in [200,400); a rejected request is
\* recorded with status 0 and accessible = false (accessibility records,
\* the apiEndpoints counter of the health check, the setup log lines).
C1_SuccessIffInRange ==
  /\ test = "access" =>
       \A k \in 1..Len(results) :
         /\ results[k].accessible <=> Succeeded(reqLog[k])
         /\ reqLog[k].res.threw =>
              results[k].status = 0 /\ ~results[k].accessible
  /\ test = "health" =>
       healthMetrics.apiEndpoints =
         Cardinality(Calls(LAMBDA c : c.call = "get" /\ Succeeded(c)))
  /\ test = "setup" =>
       \A k \in 1..Len(console) :
         console[k].line = "available" <=> Succeeded(reqLog[k])

\* C1 witness: the accessibility loop has recorded a success, a response
\* outside the range and a rejected request.
C1_Witness ==
  /\ test = "access" /\ pc = "done"
  /\ \E a, b, c \in 1..Len(results) :
       /\ results[a].accessible
       /\ results[b].status = 400 /\ ~results[b].accessible
       /\ results[c].error /\ results[c].status = 0

\* C2 (as claimed): in the health check a web endpoint is counted as
\* accessible only when its navigation response status is in [200,400).
C2_WebByStatus ==
  test = "health" =>
    healthMetrics.accessibleApps - healthMetrics.apiEndpoints =
      Cardinality(Calls(LAMBDA c : c.call = "goto" /\ Succeeded(c)))

\* C3: a rejected request or navigation never leaves the probing function:
\* it becomes a failure record (accessibility), a failedTests increment
\* (health) or a warning (global setup), and the function goes on.
C3_FailuresCaught ==
  /\ test \in {"access", "health"} => verdict # "threw"
  /\ test = "access" =>
       /\ Len(results) = Len(reqLog)
       /\ \A k \in 1..Len(results) :
            reqLog[k].res.threw => results[k].error /\ ~results[k].accessible
  /\ test = "health" =>
       /\ totalTests = Len(reqLog) + Cardinality(inFlight)
       /\ failedTests =
            Cardinality(Calls(LAMBDA c : c.res.threw))
            + Cardinality(Calls(LAMBDA c : c.call = "get" /\ ~c.res.threw
                                           /\ ~InRange(c.res.status)))
  /\ test = "globalSetup" =>
       /\ Len(console) = Len(reqLog)
       /\ \A k \in 1..Len(reqLog) :
            reqLog[k].res.threw <=> console[k].line = "warn"
       /\ pc = "done" /\ Len(reqLog) > 0 =>
            Len(reqLog) = Len(setupChecks) /\ verdict = "passed"

\* C3 witness: global setup completed although both navigations rejected,
\* or the accessibility loop completed although a request rejected.
C3_Witness ==
  \/ /\ test = "globalSetup" /\ pc = "done" /\ verdict = "passed"
     /\ \A k \in 1..Len(reqLog) : reqLog[k].res.threw
     /\ Len(reqLog) = 2
  \/ /\ test = "access" /\ pc = "done"
     /\ reqLog[2].res.threw

\* C4: when the accessibility loop and the setup availability loop have
\* finished, every configured target was requested exactly once, in list
\* order, whatever the earlier outcomes were.
C4_AllTargetsProbed ==
  /\ test = "access" /\ pc \in {"assert", "done"} => TargetsOf("get") = appUrls
  /\ test = "setup" /\ pc \in {"auth", "fixtures", "done"} =>
       TargetsOf("get") = baseUrls

\* C4 witness: the setup loop finished after its first request rejected and
\* a later one was answered.
C4_Witness ==
  /\ test = "setup" /\ pc = "auth"
  /\ reqLog[1].res.threw /\ ~reqLog[4].res.threw

\* the endpoints the health loop counted as passing
CountedPassing ==
  Calls(LAMBDA c : ~c.res.threw /\ (c.call = "get" => InRange(c.res.status)))

\* C5: the health score is 100 * (endpoints counted as passing) / (endpoints
\* probed), every endpoint weighing the same, so it lies in [0, 100].
C5_ScoreIsFraction ==
  test = "health" /\ healthScore # Unset =>
    /\ healthScore.den > 0
    /\ healthScore.num * Len(reqLog) = 100 * Cardinality(CountedPassing) * healthScore.den
    /\ 0 <= healthScore.num /\ healthScore.num <= 100 * healthScore.den

\* C5 witness: a score strictly between 0 and 100 was computed.
C5_Witness ==
  /\ test = "health" /\ pc = "done" /\ healthScore # Unset
  /\ healthScore.num = 100 /\ healthScore.den = 3
  /\ healthMetrics.apiEndpoints = 1

\* two probes answered 200 in 800 ms and one rejected
TwoOkOneError ==
  /\ Cardinality(Calls(LAMBDA c : c.res.threw)) = 1
  /\ Cardinality(Calls(LAMBDA c : ~c.res.threw /\ c.res.status = 200
                                  /\ c.res.ms = 800)) = 2

\* C6: three targets, two answering 200 in 800 ms and one failing with a
\* transport error: score 2/3 (66.7%), two counted passing, one failed,
\* and the health check passes.
C6_TwoOfThree ==
  test = "health" /\ pc = "done" /\ TwoOkOneError =>
    /\ healthMetrics.accessibleApps = 2
    /\ failedTests = 1
    /\ healthScore = Quot(200, 3)
    /\ ToFixed1(healthScore) = 667
    /\ ToFixed1(healthMetrics.errorRate) = 333
    /\ verdict = "passed"

\* C6 witness: the scenario with the API endpoint as the failing target.
C6_Witness ==
  /\ test = "health" /\ pc = "done" /\ TwoOkOneError
  /\ reqLog[2].res.threw

\* C7 (as claimed): with no successful observation at all the accessibility
\* check and the health check fail.
C7_ZeroSuccessFails ==
  test \in {"access", "health"} /\ pc = "done" /\ Calls(Succeeded) = {} =>
    verdict = "failed"

\* the observations of the repeated-probe tests, in the order the requests
\* were started: "ok" (status 200), "failed" (rejected or another status) or
\* "pending"
Observations ==
  IF test = "repeat"
  THEN [k \in 1..Len(reqLog) |->
          IF ~reqLog[k].res.threw /\ reqLog[k].res.status = 200 THEN "ok" ELSE "failed"]
  ELSE [k \in 1..Len(promises) |->
          IF promises[k] = Pending THEN "pending"
          ELSE IF promises[k].state = "fulfilled" /\ promises[k].status = 200 THEN "ok"
          ELSE "failed"]

\* one failed observation is followed by a successful one
FailedThenOk ==
  \E j, k \in 1..Len(Observations) :
    j < k /\ Observations[j] = "failed" /\ Observations[k] = "ok"

\* C8 (as claimed): a sequence of observations of one target with one failed
\* or timed-out observation followed by a successful one is judged passing.
C8_TransientTolerated ==
  test \in {"repeat", "concurrent"} /\ pc = "done" /\ FailedThenOk =>
    verdict = "passed"

\* C8 (amended): repeated probing tolerates no failure. A rejected request
\* or a status other than 200 among the observations means the check does
\* not pass, even when a later observation succeeded; the sequential loop
\* stops at the first failed observation; a pass means that every
\* observation was made and answered 200.
C8_NoFailureTolerated ==
  test \in {"repeat", "concurrent"} =>
    /\ pc = "done" /\ (\E k \in 1..Len(Observations) : Observations[k] = "failed") =>
         verdict \in {"failed", "threw"}
    /\ test = "repeat" =>
         \A k \in 1..Len(Observations) : Observations[k] = "failed" => k = Len(Observations)
    /\ verdict = "passed" =>
         /\ Len(Observations) = (IF test = "repeat" THEN iterations ELSE MaxConcurrent)
         /\ \A k \in 1..Len(Observations) : Observations[k] = "ok"

\* C8 witness: a failed observation followed by a successful one, and the
\* check finished without passing.
C8_Witness ==
  /\ test = "concurrent" /\ pc = "done" /\ FailedThenOk
  /\ Observations[1] = "failed" /\ Observations[2] = "ok"
  /\ promises[1].state = "fulfilled"
  /\ verdict = "failed"

\* a metrics record of the performance test whose load returned HTTP 200
\* and whose LCP is 3200 ms
SlowPaint ==
  \E k \in 1..Len(performanceMetrics) :
    /\ Has(performanceMetrics[k], "lcp") /\ performanceMetrics[k].lcp = 3200
    /\ \E j \in 1..Len(reqLog) :
         /\ reqLog[j].target = performanceMetrics[k].app
         /\ ~reqLog[j].res.threw /\ reqLog[j].res.status = 200

\* C9 (as claimed): a page that loads with HTTP 200 and an LCP of 3200 ms,
\* above the 2500 ms ceiling, makes the performance check fail.
C9_LcpViolationFails ==
  /\ test = "perf" /\ pc = "done" /\ SlowPaint => verdict = "failed"
  /\ test = "vitals" /\ pc = "done" /\ lcp = 3200 => verdict = "failed"

\* the positions of performanceMetrics holding a metrics record
MetricRecords == {k \in 1..Len(performanceMetrics) : ~Has(performanceMetrics[k], "error")}

\* the expectation that failed for the page of the metrics record k, if any
FailureOf(k) ==
  IF k < Len(performanceMetrics) /\ Has(performanceMetrics[k + 1], "error")
     /\ performanceMetrics[k + 1].app = performanceMetrics[k].app
  THEN performanceMetrics[k + 1].error
  ELSE "none"

\* C10: render metrics may be absent independently of each other, and a page
\* without a CLS measurement never fails its performance check for that
\* reason: its CLS expectation is not evaluated, and its check can only fail
\* on an LCP at or above the ceiling; in the Core Web Vitals test a window
\* without layout shift yields CLS 0, which passes the CLS expectation.
C10_AbsentClsNeverFails ==
  /\ test = "perf" =>
       \A k \in MetricRecords :
         ~Has(performanceMetrics[k], "cls") =>
           /\ FailureOf(k) # "expect CLS"
           /\ FailureOf(k) # "none" =>
                Has(performanceMetrics[k], "lcp") /\ performanceMetrics[k].lcp >= 2500
  /\ test = "vitals" /\ pc = "done" /\ ~shiftSeen /\ verdict = "failed" =>
       lcp >= 2500

\* C10 witness: a page with an LCP below the ceiling and no CLS measurement
\* passed its check and the test passed.
C10_Witness ==
  /\ test = "perf" /\ pc = "done" /\ verdict = "passed"
  /\ \E k \in MetricRecords :
       /\ ~Has(performanceMetrics[k], "cls") /\ ~Has(performanceMetrics[k], "fcp")
       /\ Has(performanceMetrics[k], "lcp") /\ performanceMetrics[k].lcp = 2400
       /\ FailureOf(k) = "none"

\* the metrics records of the performance test with a measured LCP
PaintRecords ==
  {k \in MetricRecords : Has(performanceMetrics[k], "lcp") /\ performanceMetrics[k].lcp > 0}

\* C11 (as claimed): a present LCP passes the LCP check exactly when it does
\* not exceed the 2500 ms ceiling; a value equal to the ceiling passes.
C11_PassIffAtMostCeiling ==
  /\ test = "perf" =>
       \A k \in PaintRecords :
         FailureOf(k) # "expect LCP" <=> performanceMetrics[k].lcp <= 2500
  /\ test = "vitals" /\ pc = "done" /\ lcp > 0 /\ cls < 100 =>
       (verdict = "passed" <=> lcp <= 2500)

\* C11 (amended): a present LCP passes the LCP check exactly when it is
\* strictly below the 2500 ms ceiling; a value equal to the ceiling fails.
C11_PassIffBelowCeiling ==
  /\ test = "perf" =>
       \A k \in PaintRecords :
         FailureOf(k) # "expect LCP" <=> performanceMetrics[k].lcp < 2500
  /\ test = "vitals" /\ pc = "done" /\ lcp > 0 /\ cls < 100 =>
       (verdict = "passed" <=> lcp < 2500)

\* C11 witness: an LCP equal to the ceiling failed the LCP expectation.
C11_Witness ==
  /\ test = "perf"
  /\ \E k \in PaintRecords :
       performanceMetrics[k].lcp = 2500 /\ FailureOf(k) = "expect LCP"

\* the score total of the delivered layout shifts that had no recent user input
UnexpectedShiftTotal(log) ==
  SumSeq([k \in 1..Len(log) |-> IF log[k].hadRecentInput THEN 0 ELSE log[k].value])

\* C12: the reported CLS is the score total of all layout shifts without
\* recent user input delivered in the measurement window, whatever callbacks
\* delivered them: shifts of later callbacks within the window are included.
C12_ClsIsWindowTotal ==
  /\ test = "perf" /\ Has(metrics, "cls") =>
       metrics.cls = UnexpectedShiftTotal(shiftLog)
  /\ test = "vitals" /\ pc \in {"assert", "done"} /\ verdict # "threw" =>
       cls = UnexpectedShiftTotal(shiftLog)

\* C13: the reported LCP is the start time of the last largest-contentful-paint
\* entry delivered in the measurement window, whatever callbacks delivered the
\* entries, and no LCP is reported (the Core Web Vitals test reports 0) when
\* the window had no such entry.
C13_LcpIsLastInWindow ==
  /\ test = "perf" =>
       /\ Has(metrics, "lcp") <=> paintLog # <<>>
       /\ Has(metrics, "lcp") => metrics.lcp = paintLog[Len(paintLog)]
  /\ test = "vitals" /\ pc \in {"cls", "assert", "done"} /\ verdict # "threw" =>
       lcp = IF paintLog = <<>> THEN 0 ELSE paintLog[Len(paintLog)]

\* the page loads of the performance test whose measurement window was opened
WindowsOpened == {j \in 1..Len(reqLog) : reqLog[j].idle}

\* a render-metric extraction resolved by its timer returns what was observed
ReturnsObserved ==
  /\ test = "perf" /\ pc = "window" /\ pc' # "window" =>
       /\ Len(performanceMetrics') > Len(performanceMetrics)
       /\ LET m == performanceMetrics'[Len(performanceMetrics) + 1] IN
            /\ ~Has(m, "error")
            /\ Has(m, "lcp") <=> paintLog # <<>>
            /\ Has(m, "lcp") => m.lcp = paintLog[Len(paintLog)]
            /\ Has(m, "cls") <=> shiftLog # <<>>
            /\ Has(m, "cls") => m.cls = UnexpectedShiftTotal(shiftLog)
  /\ test = "vitals" /\ pc = "lcp" /\ pc' # "lcp" /\ paintLog' = paintLog =>
       paintLog = <<>> /\ lcp' = 0
  /\ test = "vitals" /\ pc = "cls" /\ pc' # "cls" /\ shiftLog' = shiftLog =>
       shiftLog = <<>> /\ cls' = 0

\* a resolved extraction keeps its value, and a window yields one metrics record
ResolvesOnce ==
  /\ test = "vitals" /\ pc \in {"cls", "assert", "done"} => lcp' = lcp
  /\ test = "vitals" /\ pc \in {"assert", "done"} => cls' = cls
  /\ test = "perf" =>
       Cardinality(MetricRecords)' =
         Cardinality(WindowsOpened') - (IF pc' \in {"evaluate", "window"} THEN 1 ELSE 0)

\* C14: render-metric extraction never blocks on a signal: every extraction
\* that has started completes (its window timer fires) whether or not a paint
\* or layout-shift signal fires, it returns what was observed so far, and it
\* resolves exactly once.
C14_ExtractionCompletes ==
  /\ (test = "perf" /\ pc = "window") ~> (pc # "window")
  /\ (test = "vitals" /\ pc = "lcp") ~> (pc # "lcp")
  /\ (test = "vitals" /\ pc = "cls") ~> (pc # "cls")
  /\ [][ReturnsObserved /\ ResolvesOnce]_vars

\* C14 witness: both extractions of the Core Web Vitals test completed
\* although no paint and no layout-shift signal fired.
C14_Witness ==
  /\ test = "vitals" /\ pc = "assert"
  /\ delivered = 0 /\ paintLog = <<>> /\ shiftLog = <<>>
  /\ lcp = 0 /\ cls = 0

\* the finished page visits whose page loaded but never came to network idle
NeverIdleVisits ==
  {j \in 1..idx : reqLog[j].call = "goto" /\ ~reqLog[j].res.threw /\ ~reqLog[j].idle}

\* the finished page visits whose page loaded and came to network idle
IdleVisits == {j \in 1..idx : reqLog[j].call = "goto" /\ reqLog[j].idle}

\* the records of the performance test for one app
PerfRecordsOf(app) ==
  {k \in 1..Len(performanceMetrics) : performanceMetrics[k].app = app}

\* the visit of app is on record in the navigation test as a success
NavSucceeded(app) ==
  \E k \in 1..Len(navigationResults) :
    navigationResults[k].app = app /\ navigationResults[k].success

\* C15 (as claimed): a page probe does not wait for network idle: a page that
\* loaded but whose requests never become idle is still classified and
\* measured, and is not recorded as a failed probe.
C15_NeverIdleStillMeasured ==
  /\ test = "perf" =>
       \A j \in NeverIdleVisits :
         \E k \in PerfRecordsOf(reqLog[j].target) : k \in MetricRecords
  /\ test = "nav" =>
       \A j \in NeverIdleVisits : NavSucceeded(reqLog[j].target)

\* C15 (amended): the navigation test does not wait for network idle, so every
\* page that loaded is recorded as a success there, idle or not; the
\* performance test waits for network idle: a page that never becomes idle is
\* recorded with an error only and is not measured, and a page that becomes
\* idle is measured.
C15_IdleAwaitedOnlyForMetrics ==
  /\ test = "nav" =>
       \A j \in NeverIdleVisits \cup IdleVisits : NavSucceeded(reqLog[j].target)
  /\ test = "perf" =>
       /\ \A j \in NeverIdleVisits :
            \A k \in PerfRecordsOf(reqLog[j].target) :
              performanceMetrics[k] = PerfErrorRecord(reqLog[j].target, "networkidle")
       /\ \A j \in IdleVisits :
            \E k \in PerfRecordsOf(reqLog[j].target) : k \in MetricRecords

\* C15 witness: the performance test finished with a page that loaded, never
\* became idle and has an error record, and with another page it measured.
C15_Witness ==
  /\ test = "perf" /\ pc = "done"
  /\ NeverIdleVisits # {} /\ IdleVisits # {}
  /\ \E j \in NeverIdleVisits :
       \E k \in PerfRecordsOf(reqLog[j].target) :
         performanceMetrics[k].error = "networkidle"

\* the targets of the running loop that have not been requested yet
Unstarted ==
  {k \in 1..(IF test = "access" THEN Len(appUrls) ELSE Len(testEndpoints)) :
     k > idx /\ k \notin inFlight}

\* C16 (as claimed): probes for distinct targets are issued concurrently: while
\* the probe of an earlier target is pending, the probe of the next target can
\* be started without waiting for it.
C16_StartsWithoutWaiting ==
  /\ test = "access" /\ inFlight # {} /\ Unstarted # {} => ENABLED AccessRequest
  /\ test = "health" /\ inFlight # {} /\ Unstarted # {} => ENABLED HealthRequest

\* C16 (amended): the probes of one loop are issued one after the other: at
\* most one probe is in flight, it is the probe of the first target without a
\* result, and no later probe can start while it is pending.
C16_OneProbeAtATime ==
  test \in {"access", "health"} =>
    /\ Cardinality(inFlight) <= 1
    /\ inFlight \subseteq {idx + 1}
    /\ Len(reqLog) = idx
    /\ inFlight # {} => ~ENABLED AccessRequest /\ ~ENABLED HealthRequest

\* C16 witness: the second target's probe is pending after the first probe
\* finished, and two targets have not been requested yet.
C16_Witness ==
  /\ test = "access" /\ inFlight = {2} /\ Len(reqLog) = 1
  /\ Unstarted = {3, 4}

\* C17: in the concurrency test all requests are started before any result is
\* consumed, the status checks and the average are evaluated only after every
\* request has completed, and the responses are seen in the order the requests
\* were started, whatever the order in which they completed.
C17_JoinInStartOrder ==
  test = "concurrent" =>
    /\ settleLog # <<>> \/ responses # <<>> \/ pc = "done" =>
         Len(promises) = MaxConcurrent
    /\ verdict \in {"passed", "failed"} =>
         /\ \A k \in 1..Len(promises) : promises[k].state = "fulfilled"
         /\ Len(settleLog) = MaxConcurrent
         /\ Len(responses) = MaxConcurrent
         /\ \A k \in 1..Len(responses) :
              /\ responses[k].request = k
              /\ responses[k].status = promises[k].status
    /\ verdict \notin {"passed", "failed"} => responses = <<>>

\* C17 witness: the first request completed last, after the last one, and
\* the test evaluated the responses in start order.
C17_Witness ==
  /\ test = "concurrent" /\ pc = "done" /\ verdict = "failed"
  /\ settleLog[1] = Len(promises) /\ settleLog[Len(settleLog)] = 1
  /\ responses[1].request = 1 /\ responses[1].status = 500
  /\ responses[Len(responses)].request = Len(promises)
  /\ responses[Len(responses)].status = 200

\* the latest metrics record of the performance test
LastMeasured ==
  performanceMetrics[CHOOSE k \in MetricRecords : \A j \in MetricRecords : j <= k]

\* the latest finished page visit of the performance test that reached
\* network idle
LastIdleVisit ==
  reqLog[CHOOSE j \in IdleVisits : \A i \in IdleVisits : i <= j]

\* C18: the pages of the performance test are measured one at a time, and the
\* render metrics recorded for a target come only from the signals of its own
\* measurement window, opened after its own navigation: the CLS on record is
\* the total of that window's layout shifts, a target whose navigation failed
\* or timed out has an error record without any metric, and no target has
\* more than one metrics record.
C18_MetricsFromOwnWindow ==
  test = "perf" =>
    /\ open \subseteq {"metrics"}
    /\ open # {} <=> pc = "window"
    /\ \A k \in 1..Len(performanceMetrics) :
         Has(performanceMetrics[k], "error") =>
           DOMAIN performanceMetrics[k] = {"app", "error"}
    /\ \A k, j \in MetricRecords :
         performanceMetrics[k].app = performanceMetrics[j].app => k = j
    /\ pc # "window" /\ MetricRecords # {} =>
         /\ LastMeasured.app = LastIdleVisit.target
         /\ Has(LastMeasured, "cls") <=> shiftLog # <<>>
         /\ Has(LastMeasured, "cls") =>
              LastMeasured.cls = UnexpectedShiftTotal(shiftLog)

\* C18 witness: the first target was measured with layout shifts, and the
\* second target, also with a layout shift, has its own smaller CLS on record.
C18_Witness ==
  /\ test = "perf" /\ pc = "done" /\ Len(performanceMetrics) = 2
  /\ performanceMetrics[1].app = testApps[1]
  /\ Has(performanceMetrics[1], "cls") /\ performanceMetrics[1].cls = 80
  /\ performanceMetrics[2].app = testApps[2]
  /\ Has(performanceMetrics[2], "cls") /\ performanceMetrics[2].cls = 40

\* C19: waitForCondition called with timeout 0 never reports success: it
\* returns false without evaluating the condition, whatever the condition
\* would return.
C19_ZeroTimeoutReturnsFalse ==
  test = "wait" /\ timeout = 0 =>
    /\ evaluations = <<>>
    /\ returned # "true" /\ verdict # "threw"
    /\ pc = "done" => returned = "false"

\* C19 witness: a call with timeout 0 has returned false.
C19_Witness ==
  /\ test = "wait" /\ timeout = 0 /\ pc = "done"
  /\ returned = "false" /\ evaluations = <<>>

\* C20: when the environment variable of a target is absent, the URL used for
\* the target is the documented default (blog :3000, API :3001, upload :3002,
\* cron monitor :3003), and every place that resolves the target uses the
\* same default.
C20_DocumentedDefaultEverywhere ==
  test = "config" =>
    /\ apps # Unset =>
         /\ env.BLOG_URL = Absent => apps.blogUrl = DocumentedDefaults.BLOG_URL
         /\ env.API_URL = Absent => apps.apiUrl = DocumentedDefaults.API_URL
         /\ env.UPLOAD_URL = Absent => apps.uploadUrl = DocumentedDefaults.UPLOAD_URL
         /\ env.CRON_URL = Absent => apps.cronUrl = DocumentedDefaults.CRON_URL
    /\ generatedTestData # Unset =>
         /\ env.BLOG_URL = Absent =>
              generatedTestData.apps.blog = DocumentedDefaults.BLOG_URL
         /\ env.API_URL = Absent =>
              generatedTestData.apps.api = DocumentedDefaults.API_URL
         /\ env.UPLOAD_URL = Absent =>
              generatedTestData.apps.upload = DocumentedDefaults.UPLOAD_URL
         /\ env.CRON_URL = Absent =>
              generatedTestData.apps.cron = DocumentedDefaults.CRON_URL
    /\ apps # Unset /\ generatedTestData # Unset =>
         /\ apps.blogUrl = generatedTestData.apps.blog
         /\ apps.apiUrl = generatedTestData.apps.api
         /\ apps.uploadUrl = generatedTestData.apps.upload
         /\ apps.cronUrl = generatedTestData.apps.cron

\* the latency ceiling of the health check, ms
LatencyCeiling == 30000

\* the health check's calls that were counted as passing with a latency
\* above the ceiling
SlowSuccesses == {k \in CountedPassing : reqLog[k].res.ms > LatencyCeiling}

\* the sum of the latencies of the calls that returned a response
ResolvedLatencyTotal ==
  SumSeq([k \in 1..Len(reqLog) |-> IF reqLog[k].res.threw THEN 0 ELSE reqLog[k].res.ms])

\* C21 (as claimed): the latency check is applied to each successful
\* observation: the health check passes only if no successfully probed
\* endpoint has a latency above the 30000 ms ceiling.
C21_EachLatencyChecked ==
  test = "health" /\ pc = "done" /\ verdict = "passed" => SlowSuccesses = {}

\* C21 (amended): the latency check is applied to the average: the health
\* check passes exactly when an endpoint was counted accessible, not every
\* endpoint failed, and the latencies of all calls that returned a response
\* (a rejected call adds 0), divided by the number of endpoints, are below
\* 30000 ms.
C21_AverageLatencyChecked ==
  test = "health" /\ pc = "done" =>
    /\ totalTime = ResolvedLatencyTotal
    /\ healthMetrics.averageLoadTime = Quot(ResolvedLatencyTotal, Len(testEndpoints))
    /\ verdict = "passed" <=>
         /\ CountedPassing # {}
         /\ failedTests < totalTests
         /\ ResolvedLatencyTotal < LatencyCeiling * Len(testEndpoints)

\* C21 witness: the health check passed although an endpoint counted as
\* passing took more than 30000 ms.
C21_Witness ==
  /\ test = "health" /\ pc = "done" /\ verdict = "passed"
  /\ SlowSuccesses # {}

\* the orders in which n endpoints can be taken
Orders(n) == {p \in [1..n -> 1..n] : \A i, j \in 1..n : p[i] = p[j] => i = j}

\* the calls of reqLog taken in the order p
Reordered(p) == [k \in 1..Len(reqLog) |-> reqLog[p[k]]]

\* C22: summarization is order-independent: with the outcome of each endpoint
\* fixed, folding the endpoints in any order gives the health score, the
\* error rate and the pass/fail result that the health check computed.
C22_OrderIndependent ==
  test = "health" /\ pc = "done" =>
    LET ran == HealthResult(HealthFold(HealthStart, reqLog)) IN
    /\ ran.errorRate = healthMetrics.errorRate
    /\ ran.passed <=> verdict = "passed"
    /\ healthScore # Unset => ran.healthScore = healthScore
    /\ \A p \in Orders(Len(reqLog)) :
         HealthResult(HealthFold(HealthStart, Reordered(p))) = ran

\* C22 witness: the health check finished with three different outcomes: a
\* rejected navigation, an API response outside the range and a slow page.
C22_Witness ==
  /\ test = "health" /\ pc = "done"
  /\ reqLog[1].res.threw
  /\ ~reqLog[2].res.threw /\ reqLog[2].res.status = 500 /\ reqLog[2].res.ms = 800
  /\ ~reqLog[3].res.threw /\ reqLog[3].res.ms = 31000

\* C23: global teardown never throws: an error raised while the temporary
\* directory is removed is caught and logged, and globalTeardown completes
\* normally on every path; without an error it logs the completion line.
C23_TeardownNeverThrows ==
  test = "globalTeardown" =>
    /\ verdict # "threw"
    /\ pc = "done" =>
         /\ verdict = "passed"
         /\ LET last == console[Len(console)].line
                failed == \E k \in 1..Len(reqLog) : reqLog[k].res.threw
            IN  /\ failed <=> last = "failed"
                /\ ~failed <=> last = "completed"
    /\ pc # "done" => ENABLED (TeardownTemp \/ TeardownResults)

\* C23 witness: removing the temporary directory threw, and globalTeardown
\* returned normally after logging the error.
C23_Witness ==
  /\ test = "globalTeardown" /\ pc = "done" /\ verdict = "passed"
  /\ reqLog # <<>> /\ reqLog[1].res.threw
  /\ console[Len(console)].line = "failed"

\* the evaluations of the condition that returned the value v
EvaluationsWith(v) == {k \in 1..Len(evaluations) : evaluations[k].value = v}

\* C24: waitForCondition returns true exactly when an evaluation of the
\* condition returned true, and that evaluation is the last one; it returns
\* false only after every evaluation returned false and the elapsed time has
\* reached the timeout; an exception of the condition leaves waitForCondition
\* without a return value.
C24_WaitResult ==
  test = "wait" =>
    /\ returned = "true" <=> EvaluationsWith("true") # {}
    /\ EvaluationsWith("true") \subseteq {Len(evaluations)}
    /\ EvaluationsWith("throws") \subseteq {Len(evaluations)}
    /\ returned = "false" =>
         /\ EvaluationsWith("false") = 1..Len(evaluations)
         /\ elapsed >= timeout
    /\ verdict = "threw" <=> EvaluationsWith("throws") # {}
    /\ verdict = "threw" => returned = "none" /\ pc = "done"
    /\ pc = "done" /\ verdict # "threw" => returned \in {"true", "false"}

\* C24 witness: the condition returned false twice and then true, and
\* waitForCondition returned true.
C24_Witness ==
  /\ test = "wait" /\ pc = "done" /\ returned = "true"
  /\ Len(evaluations) = 3
  /\ evaluations[1].value = "false" /\ evaluations[2].value = "false"

\* the finished API probes whose response had the expected status and a
\* content-type header containing the expected media type
Working ==
  {k \in 1..idx :
     /\ ~reqLog[k].res.threw
     /\ reqLog[k].res.status = apiTests[k].expectedStatus
     /\ \E i \in 1..Len(reqLog[k].res.contentType) :
          reqLog[k].res.contentType[i] = apiTests[k].expectedContentType}

\* the endpoints with a record that counts as working
CountedWorking ==
  {k \in 1..Len(apiTests) :
     \E j \in 1..Len(successfulApis) : successfulApis[j].name = apiTests[k].name}

\* C25: in the API-integration check an endpoint is counted as working
\* exactly when its response has the expected status and a content-type
\* header containing the expected media type, also when reading its body
\* fails afterwards; the check passes exactly when an endpoint is counted.
C25_WorkingIffStatusAndType ==
  test = "api" =>
    /\ CountedWorking = Working
    /\ Len(successfulApis) = Cardinality(Working)
    /\ pc = "done" => (verdict = "passed" <=> Working # {})

\* C25 witness: an endpoint answered 200 with a JSON content type and a
\* charset parameter, reading its body failed, the other endpoint answered
\* with the wrong content type, and the check passed.
C25_Witness ==
  /\ test = "api" /\ pc = "done" /\ verdict = "passed"
  /\ reqLog[1].res.contentType = <<"application/json", "; charset=utf-8">>
  /\ ~reqLog[1].body
  /\ reqLog[2].res.status = 200 /\ reqLog[2].res.contentType = <<"text/plain">>
  /\ Working = {1}

\* C26 (as claimed): in the system-health check every endpoint is counted
\* exactly once, as accessible or as failed: after each loop iteration
\* accessibleApps + failedTests = totalTests; at the end
\* errorRate = 100 - healthScore, and the assertions errorRate < 100,
\* accessibleApps > 0 and healthScore > 0 hold or fail together.
C26_CountedOnce ==
  test = "health" =>
    /\ pc # "await" => healthMetrics.accessibleApps + failedTests = totalTests
    /\ pc = "done" =>
         LET m == healthMetrics
             score == HealthScoreOf(m)
         IN  /\ m.errorRate.num * score.den + score.num * m.errorRate.den
                  = 100 * m.errorRate.den * score.den
             /\ QuotLess(m.errorRate, 100) <=> m.accessibleApps > 0
             /\ m.accessibleApps > 0 <=> QuotGreater(score, 0)

\* C26 witness: the health check finished with one endpoint accessible and
\* two failed.
C26_Witness ==
  /\ test = "health" /\ pc = "done"
  /\ healthMetrics.accessibleApps = 1 /\ failedTests = 2 /\ totalTests = 3

\* C27: each per-target result list holds exactly one record per probed
\* target: when the loops of the performance check and of the
\* API-integration check have finished, performanceMetrics and apiResults
\* have as many entries as there are targets.
C27_OneRecordPerTarget ==
  /\ test = "perf" /\ pc \in {"assert", "done"} =>
       Len(performanceMetrics) = Len(testApps)
  /\ test = "api" /\ pc \in {"assert", "done"} =>
       Len(apiResults) = Len(apiTests)

\* C28: in globalSetup, once the browser has been launched it is closed
\* exactly once on every path, and an error from saving the storage state is
\* rethrown to the caller after the browser is closed.
C28_BrowserClosedOnce ==
  test = "globalSetup" =>
    /\ closes <= 1
    /\ pc = "done" /\ browser # "none" => browser = "closed" /\ closes = 1
    /\ pc = "done" /\ thrown = "storageState" => verdict = "threw" /\ closes = 1

\* the navigation of the setup test's authentication step, once made
AuthStep == reqLog[Len(baseUrls) + 1]

\* C29: after the authentication step of the setup test the auth state file
\* exists on every path: it holds the saved storage state when the navigation
\* and the save went through, and the minimal state otherwise; the auth
\* directory exists before either write.
C29_AuthFileAlwaysWritten ==
  test = "setup" =>
    /\ pc # "mkdir" => authDir
    /\ authFile # Absent => authDir
    /\ pc \in {"fixtures", "done"} =>
         /\ authFile \in {"storageState", "minimal"}
         /\ authFile = "storageState" <=> ~AuthStep.res.threw /\ AuthStep.saved
    /\ pc \notin {"fixtures", "done"} => authFile = Absent

\* C29 witness: the navigation went through, saving the storage state threw,
\* and the setup test finished with the minimal state on file.
C29_Witness ==
  /\ test = "setup" /\ pc = "done" /\ verdict = "passed"
  /\ ~AuthStep.res.threw /\ ~AuthStep.saved
  /\ authFile = "minimal"

\* the evaluations of the condition start below the timeout and at least an
\* interval apart
PollsWithinTimeout ==
  test = "wait" =>
    \A k \in 1..Len(evaluations) :
      /\ evaluations[k].at < timeout
      /\ k > 1 => evaluations[k].at >= evaluations[k - 1].at + interval

\* C30: waitForCondition always terminates when every evaluation of the
\* condition terminates and time advances; it evaluates the condition only
\* while the elapsed time is below the timeout, sleeps for the interval
\* between evaluations, and starts no evaluation at or after the timeout.
C30_WaitTerminates ==
  /\ (test = "wait") ~> (test = "wait" /\ pc = "done")
  /\ []PollsWithinTimeout

\* C30 witness: waitForCondition returned false after three evaluations, the
\* last of them started below the timeout, and the time ran past the timeout.
C30_Witness ==
  /\ test = "wait" /\ pc = "done" /\ returned = "false"
  /\ Len(evaluations) = 3 /\ evaluations[3].at < timeout
  /\ elapsed > timeout

====
